---- MODULE Spec2Model ----
(***************************************************************************)
(* Verification model of edl2ffmpeg: EDL parsing and track alignment,      *)
(* lazy instruction generation, the decoder's seek policy, the encoder     *)
(* adapter and the frame loop of main.                                     *)
(*                                                                         *)
(* Times of the EDL document are multiples of 1/TimeDen seconds ("ticks"). *)
(* Values the code computes in IEEE-754 double precision are modelled      *)
(* bit-exactly as fixed-point numbers with 60 fractional bits, held in     *)
(* NumLimbs limbs of 15 bits (little-endian), and rounded to 53            *)
(* significant bits (round to nearest, ties to even) after every           *)
(* operation, as the hardware does.                                        *)
(***************************************************************************)
EXTENDS Integers, Sequences, FiniteSets, TLC

VARIABLES doc, edl, gen, dec, enc, run, pool, hwctx

vars == <<doc, edl, gen, dec, enc, run, pool, hwctx>>

(***************************************************************************)
(* Bounds of the model                                                     *)
(***************************************************************************)
MaxClips == 3          \* clips per document in the parser specification
MaxTick == 3           \* largest in/out point of a parser document, in ticks
GenMaxClips == 2       \* clips per document in the generator specification
GenMaxTick == 5        \* largest in/out point of a generator document, in ticks

(***************************************************************************)
(* IEEE-754 double arithmetic on non-negative values                       *)
(***************************************************************************)
LimbBase == 32768      \* 2^15
NumLimbs == 6
FracLimbs == 4         \* 4 * 15 = 60 fractional bits
LimbBits == 15
MantBits == 53         \* significand of a double
TimeDen == 4           \* ticks per second of the document times

RECURSIVE Pow2(_)
Pow2(k) == IF k = 0 THEN 1 ELSE 2 * Pow2(k - 1)

RECURSIVE IntBitLen(_)
IntBitLen(n) == IF n = 0 THEN 0 ELSE 1 + IntBitLen(n \div 2)

BigFromInt(n) == <<0, 0, 0, 0, n % LimbBase, n \div LimbBase>>

\* static_cast<int64_t>(double): truncation of a non-negative value
BigTrunc(x) == x[FracLimbs + 1] + LimbBase * x[FracLimbs + 2]

\* std::round on a non-negative value: halves round away from zero
BigRound(x) == BigTrunc(x) + (IF 2 * x[FracLimbs] >= LimbBase THEN 1 ELSE 0)

RECURSIVE BigMulCarry(_, _, _, _)
BigMulCarry(x, k, i, carry) ==
    IF i > NumLimbs THEN << >>
    ELSE LET t == x[i] * k + carry
         IN <<t % LimbBase>> \o BigMulCarry(x, k, i + 1, t \div LimbBase)

BigMulSmall(x, k) == BigMulCarry(x, k, 1, 0)

RECURSIVE BigAddCarry(_, _, _, _)
BigAddCarry(x, y, i, carry) ==
    IF i > NumLimbs THEN << >>
    ELSE LET t == x[i] + y[i] + carry
         IN <<t % LimbBase>> \o BigAddCarry(x, y, i + 1, t \div LimbBase)

BigAdd(x, y) == BigAddCarry(x, y, 1, 0)

RECURSIVE BigSubBorrow(_, _, _, _)
BigSubBorrow(x, y, i, borrow) ==
    IF i > NumLimbs THEN << >>
    ELSE LET t == x[i] - y[i] - borrow
         IN IF t < 0
            THEN <<t + LimbBase>> \o BigSubBorrow(x, y, i + 1, 1)
            ELSE <<t>> \o BigSubBorrow(x, y, i + 1, 0)

\* x - y for x >= y
BigSub(x, y) == BigSubBorrow(x, y, 1, 0)

RECURSIVE BigCmpFrom(_, _, _)
BigCmpFrom(x, y, i) ==
    IF i = 0 THEN 0
    ELSE IF x[i] > y[i] THEN 1
    ELSE IF x[i] < y[i] THEN -1
    ELSE BigCmpFrom(x, y, i - 1)

BigCmp(x, y) == BigCmpFrom(x, y, NumLimbs)

BigLess(x, y) == BigCmp(x, y) < 0
BigGeq(x, y) == BigCmp(x, y) >= 0

RECURSIVE BigDivRem(_, _, _, _)
BigDivRem(x, d, i, r) ==
    IF i = 0 THEN [q |-> << >>, r |-> r]
    ELSE LET cur == r * LimbBase + x[i]
             lower == BigDivRem(x, d, i - 1, cur % d)
         IN [q |-> lower.q \o <<cur \div d>>, r |-> lower.r]

BigDivSmall(x, d) == BigDivRem(x, d, NumLimbs, 0)

RECURSIVE BigTopLimb(_, _)
BigTopLimb(x, i) == IF i = 0 THEN 0 ELSE IF x[i] # 0 THEN i ELSE BigTopLimb(x, i - 1)

BigBitLen(x) ==
    LET h == BigTopLimb(x, NumLimbs)
    IN IF h = 0 THEN 0 ELSE (h - 1) * LimbBits + IntBitLen(x[h])

BigPow2(k) ==
    [i \in 1..NumLimbs |-> IF i = (k \div LimbBits) + 1 THEN Pow2(k % LimbBits) ELSE 0]

BigLowBits(x, k) ==
    [i \in 1..NumLimbs |->
        IF i <= k \div LimbBits THEN x[i]
        ELSE IF i = (k \div LimbBits) + 1 THEN x[i] % Pow2(k % LimbBits)
        ELSE 0]

\* Round an exact result to MantBits significant bits, ties to even; sticky
\* tells that non-zero bits were lost below the fixed-point scale.
RoundMant(x, sticky) ==
    LET len == BigBitLen(x)
    IN IF len <= MantBits THEN x
       ELSE LET drop == len - MantBits
                low == BigLowBits(x, drop)
                down == BigSub(x, low)
                c == BigCmp(low, BigPow2(drop - 1))
                odd == (x[(drop \div LimbBits) + 1] \div Pow2(drop % LimbBits)) % 2 = 1
            IN IF c > 0 \/ (c = 0 /\ (sticky \/ odd))
               THEN BigAdd(down, BigPow2(drop))
               ELSE down

\* a document time of t ticks as a double (exact: TimeDen is a power of two)
DblFromTicks(t) == BigDivSmall(BigFromInt(t), TimeDen).q

\* 1.0 / n for an int n
DblInv(n) == LET d == BigDivSmall(BigFromInt(1), n) IN RoundMant(d.q, d.r # 0)

\* x * n for a double x and an int n converted to double
DblMulInt(x, n) == RoundMant(BigMulSmall(x, n), FALSE)

\* x + y and x - y (x >= y) on doubles
DblAdd(x, y) == RoundMant(BigAdd(x, y), FALSE)
DblSub(x, y) == RoundMant(BigSub(x, y), FALSE)

(***************************************************************************)
(* float: a normalised significand of FloatMantBits bits and an exponent,  *)
(* value m * 2^e; zero is m = 0.  Only values >= 0 occur.                   *)
(***************************************************************************)
FloatMantBits == 24

FloatZero == [m |-> 0, e |-> 0]
FloatOne == [m |-> Pow2(FloatMantBits - 1), e |-> 1 - FloatMantBits]

\* a < b on floats
FloatLess(a, b) ==
    IF b.m = 0 THEN FALSE
    ELSE IF a.m = 0 THEN TRUE
    ELSE IF a.e # b.e THEN a.e < b.e
    ELSE a.m < b.m

FloatLeq(a, b) == ~FloatLess(b, a)

\* std::min(a, b): b when b < a, else a
FloatMin(a, b) == IF FloatLess(b, a) THEN b ELSE a

\* x * 2^s and x / 2^s (the bits shifted out are zero) on the fixed-point limbs
RECURSIVE BigShl(_, _)
BigShl(x, s) ==
    IF s = 0 THEN x
    ELSE IF s >= LimbBits THEN BigShl(<<0>> \o SubSeq(x, 1, NumLimbs - 1), s - LimbBits)
    ELSE BigMulSmall(x, Pow2(s))

RECURSIVE BigShr(_, _)
BigShr(x, s) ==
    IF s = 0 THEN x
    ELSE IF s >= LimbBits THEN BigShr(SubSeq(x, 2, NumLimbs) \o <<0>>, s - LimbBits)
    ELSE BigDivSmall(x, Pow2(s)).q

\* Round an exact value to the given number of significant bits, ties to
\* even; sticky tells that non-zero bits were lost below the fixed-point scale.
RoundBits(x, sticky, bits) ==
    LET len == BigBitLen(x)
    IN IF len <= bits THEN x
       ELSE LET drop == len - bits
                low == BigLowBits(x, drop)
                down == BigSub(x, low)
                c == BigCmp(low, BigPow2(drop - 1))
                odd == (x[(drop \div LimbBits) + 1] \div Pow2(drop % LimbBits)) % 2 = 1
            IN IF c > 0 \/ (c = 0 /\ (sticky \/ odd))
               THEN BigAdd(down, BigPow2(drop))
               ELSE down

\* a value already rounded to a float, as significand and exponent; scale
\* is the number of bits the value was shifted up by
FloatOfRounded(asFloat, scale) ==
    LET len == BigBitLen(asFloat)
        top == BigShr(asFloat, len - FloatMantBits)
    IN [m |-> top[1] + LimbBase * top[2],
        e |-> len - FloatMantBits - FracLimbs * LimbBits - scale]

\* static_cast<float>(num / den) for a double num >= 0 and a divisor of
\* denTicks ticks: the quotient is rounded to a double, the double to a float
FloatOfQuotient(num, denTicks) ==
    CHOOSE f \in
        {IF BigBitLen(n) = 0 THEN FloatZero
         ELSE CHOOSE r \in
                {FloatOfRounded(asFloat, (NumLimbs * LimbBits - 2) - BigBitLen(n)
                                            - IntBitLen(TimeDen)) :
                    asFloat \in
                        {RoundBits(asDouble, FALSE, FloatMantBits) :
                            asDouble \in
                                {RoundBits(d.q, d.r # 0, MantBits) :
                                    d \in {BigDivSmall(
                                              BigShl(BigMulSmall(n, TimeDen),
                                                     (NumLimbs * LimbBits - 2) - BigBitLen(n)
                                                        - IntBitLen(TimeDen)),
                                              denTicks)}}}} : TRUE
         : n \in {num}} : TRUE

\* static_cast<float>(x) for a double x >= 0
FloatFromDouble(x) == FloatOfQuotient(x, TimeDen)

(***************************************************************************)
(* EDL parser (src/edl/EDLParser.cpp).  A JSON value carries its type; an  *)
(* object is a record of JSON values, an array a sequence.  A real number  *)
(* holds its value in ticks of 1/TimeDen, an integer holds it as it is.    *)
(* An operation that can throw returns a record with ok = FALSE and the    *)
(* kind of the exception.                                                  *)
(***************************************************************************)
JNull == [t |-> "null"]
JInt(n) == [t |-> "integer", v |-> n]
JReal(ticks) == [t |-> "float", v |-> ticks]
JStr(s) == [t |-> "string", v |-> s]
JBool(b) == [t |-> "boolean", v |-> b]
JObj(r) == [t |-> "object", v |-> r]
JArr(s) == [t |-> "array", v |-> s]

InvalidEdl(msg, t) == [ok |-> FALSE, kind |-> "InvalidEdl", message |-> msg, at |-> t]

\* nlohmann::json::type_error, thrown by get<T>() on a value of another type
TypeError(msg) == [ok |-> FALSE, kind |-> "json::type_error", message |-> msg, at |-> 0]

\* std::invalid_argument and std::out_of_range, thrown by std::stoi
InvalidArgument(msg) ==
    [ok |-> FALSE, kind |-> "std::invalid_argument", message |-> msg, at |-> 0]
OutOfRange(msg) == [ok |-> FALSE, kind |-> "std::out_of_range", message |-> msg, at |-> 0]

NoError == [ok |-> TRUE, kind |-> "", message |-> "", at |-> 0]

Ok(v) == [ok |-> TRUE, v |-> v]

DigitStr == <<"0", "1", "2", "3", "4", "5", "6", "7", "8", "9">>

\* std::to_string(int)
RECURSIVE IntStr(_)
IntStr(n) == IF n < 10 THEN DigitStr[n + 1] ELSE IntStr(n \div 10) \o DigitStr[(n % 10) + 1]

\* the characters of std::to_string(int), as character codes
RECURSIVE IntCodes(_)
IntCodes(n) == IF n < 10 THEN <<48 + n>> ELSE IntCodes(n \div 10) \o <<48 + (n % 10)>>

\* j.contains(key)
contains(j, key) == j.t = "object" /\ key \in DOMAIN j.v

hasNonNullKey(j, key) == contains(j, key) /\ j.v[key].t # "null"

is_number(x) == x.t \in {"integer", "float"}

\* get<double>() of a number, in ticks
AsTicks(x) == IF x.t = "integer" THEN x.v * TimeDen ELSE x.v

\* get<int>() of a number or a boolean: a real number is truncated
AsInt(x) ==
    IF x.t = "integer" THEN x.v
    ELSE IF x.t = "boolean" THEN (IF x.v THEN 1 ELSE 0)
    ELSE IF x.v >= 0 THEN x.v \div TimeDen ELSE -((-x.v) \div TimeDen)

\* getIfExists<int>, <float> / <double>, <std::string>: the default when the
\* key is absent or null, else get<T>(), which throws on another type
getIfExistsInt(j, key, default) ==
    IF ~hasNonNullKey(j, key) THEN Ok(default)
    ELSE IF j.v[key].t \in {"integer", "float", "boolean"} THEN Ok(AsInt(j.v[key]))
    ELSE TypeError("type must be number")

getIfExistsFloat(j, key, default) ==
    IF ~hasNonNullKey(j, key) THEN Ok(default)
    ELSE IF is_number(j.v[key]) THEN Ok(AsTicks(j.v[key]))
    ELSE IF j.v[key].t = "boolean" THEN Ok(IF j.v[key].v THEN TimeDen ELSE 0)
    ELSE TypeError("type must be number")

getIfExistsString(j, key, default) ==
    IF ~hasNonNullKey(j, key) THEN Ok(default)
    ELSE IF j.v[key].t = "string" THEN Ok(j.v[key].v)
    ELSE TypeError("type must be string")

\* the keys items() iterates over
Keys(j) == IF j.t = "object" THEN DOMAIN j.v ELSE {}

ensureOnlyKeys(j, allowedKeys) ==
    IF Keys(j) \ allowedKeys # {} THEN InvalidEdl("contains unsupported keys", 0)
    ELSE NoError

getUniqueNonNullKey(j, exclusiveKeys) ==
    LET foundKeys == {k \in exclusiveKeys : hasNonNullKey(j, k)}
    IN IF Cardinality(foundKeys) = 1 THEN Ok(CHOOSE k \in foundKeys : TRUE)
       ELSE IF foundKeys = {} THEN InvalidEdl("must contain one of the keys", 0)
       ELSE InvalidEdl("can only contain one of the keys", 0)

getString(j, key) ==
    IF ~contains(j, key) THEN InvalidEdl("must have " \o key, 0)
    ELSE IF j.v[key].t # "string" THEN InvalidEdl(key \o " must be a string", 0)
    ELSE Ok(j.v[key].v)

getDouble(j, key) ==
    IF ~contains(j, key) THEN InvalidEdl("must have " \o key, 0)
    ELSE IF ~is_number(j.v[key]) THEN InvalidEdl(key \o " must be a number", 0)
    ELSE Ok(AsTicks(j.v[key]))

getNonNegativeDouble(j, key) ==
    LET val == getDouble(j, key)
    IN IF ~val.ok THEN val
       ELSE IF val.v < 0 THEN InvalidEdl(key \o " must be non-negative", val.v)
       ELSE val

getInteger(j, key) ==
    IF ~contains(j, key) THEN InvalidEdl("must have " \o key, 0)
    ELSE IF j.v[key].t # "integer" THEN InvalidEdl(key \o " must be an integer", 0)
    ELSE Ok(j.v[key].v)

getPositiveInteger(j, key) ==
    LET val == getInteger(j, key)
    IN IF ~val.ok THEN val
       ELSE IF val.v <= 0 THEN InvalidEdl(key \o " must be positive", val.v)
       ELSE val

getObject(j, key) ==
    IF ~contains(j, key) THEN InvalidEdl("must have " \o key, 0)
    ELSE IF j.v[key].t # "object" THEN InvalidEdl(key \o " must be an object", 0)
    ELSE Ok(j.v[key])

getArray(j, key) ==
    IF ~contains(j, key) THEN InvalidEdl("must have " \o key, 0)
    ELSE IF j.v[key].t # "array" THEN InvalidEdl(key \o " must be an array", 0)
    ELSE Ok(j.v[key])

getInterval(j) ==
    LET in == getNonNegativeDouble(j, "in")
        out == getNonNegativeDouble(j, "out")
    IN IF ~in.ok THEN in
       ELSE IF ~out.ok THEN out
       ELSE IF in.v >= out.v THEN InvalidEdl("In point must be before out point", in.v)
       ELSE [ok |-> TRUE, in |-> in.v, out |-> out.v]

TrackTypes == {"video", "audio", "subtitle", "caption", "burnin"}

parseTrack(j) ==
    LET typeStr == getString(j, "type")
        number == getPositiveInteger(j, "number")
        subtype == getIfExistsString(j, "subtype", "")
        subnumber == IF hasNonNullKey(j, "subnumber")
                     THEN getPositiveInteger(j, "subnumber") ELSE Ok(1)
    IN IF ~typeStr.ok THEN typeStr
       ELSE IF typeStr.v \notin TrackTypes THEN InvalidEdl("Unknown track type", 0)
       ELSE IF ~number.ok THEN number
       ELSE IF ~subtype.ok THEN subtype
       ELSE IF ~subnumber.ok THEN subnumber
       ELSE IF subtype.v = "" /\ subnumber.v # 1
            THEN InvalidEdl("Track with subnumber must have subtype", 0)
       ELSE [ok |-> TRUE,
             track |-> [type |-> typeStr.v, number |-> number.v,
                        subtype |-> subtype.v, subnumber |-> subnumber.v]]

NoData == [x \in {} |-> 0]

NoSource == [kind |-> "none", uri |-> "", in |-> 0, out |-> 0, fps |-> 0,
             type |-> "", data |-> NoData]

\* Location sources, bezier motion and generate types other than black
checkUnsupportedSourceFeatures(source) ==
    IF hasNonNullKey(source, "location")
    THEN InvalidEdl("Location sources are not supported", 0)
    ELSE IF hasNonNullKey(source, "motion") /\ hasNonNullKey(source.v.motion, "bezier")
    THEN InvalidEdl("Motion bezier curves are not supported", 0)
    ELSE IF hasNonNullKey(source, "generate") /\ hasNonNullKey(source.v.generate, "type")
    THEN (IF source.v.generate.v.type.t # "string" THEN TypeError("type must be string")
          ELSE IF source.v.generate.v.type.v # "black"
          THEN InvalidEdl("Only 'black' is currently supported", 0)
          ELSE NoError)
    ELSE NoError

parseMediaSource(j) ==
    LET uri == getString(j, "uri")
        iv == getInterval(j)
        fps == getIfExistsInt(j, "fps", 0)
        unsupported == checkUnsupportedSourceFeatures(j)
    IN IF ~uri.ok THEN uri
       ELSE IF ~iv.ok THEN iv
       ELSE IF ~fps.ok THEN fps
       ELSE IF ~unsupported.ok THEN unsupported
       ELSE [ok |-> TRUE,
             source |-> [kind |-> "media", uri |-> uri.v, in |-> iv.in, out |-> iv.out,
                         fps |-> fps.v, type |-> "", data |-> NoData]]

parseGenerateSource(j) ==
    LET generate == getObject(j, "generate")
        generateType == getString(generate.v, "type")
        iv == getInterval(j)
        width == getPositiveInteger(j, "width")
        height == getPositiveInteger(j, "height")
    IN IF ~generate.ok THEN generate
       ELSE IF ~generateType.ok THEN generateType
       ELSE IF generateType.v # "black"
            THEN InvalidEdl("Only 'black' is currently supported", 0)
       ELSE IF ~iv.ok THEN iv
       ELSE IF ~width.ok THEN width
       ELSE IF ~height.ok THEN height
       ELSE [ok |-> TRUE,
             source |-> [kind |-> "generate", uri |-> "", in |-> iv.in,
                         out |-> iv.out, fps |-> 0, type |-> "", data |-> NoData]]

\* the effect's type, its interval, and data["value"] when the source has one
parseEffectSource(j) ==
    LET type == getString(j, "type")
        iv == getInterval(j)
        value == IF hasNonNullKey(j, "value") THEN getDouble(j, "value") ELSE Ok(0)
    IN IF ~type.ok THEN type
       ELSE IF ~iv.ok THEN iv
       ELSE IF ~value.ok THEN value
       ELSE [ok |-> TRUE,
             source |-> [kind |-> "effect", uri |-> "", in |-> iv.in,
                         out |-> iv.out, fps |-> 0, type |-> type.v,
                         data |-> IF hasNonNullKey(j, "value")
                                  THEN [x \in {"value"} |-> value.v] ELSE NoData]]

parseTransformSource(j) ==
    LET iv == getInterval(j)
    IN IF ~iv.ok THEN iv
       ELSE [ok |-> TRUE,
             source |-> [kind |-> "transform", uri |-> "", in |-> iv.in,
                         out |-> iv.out, fps |-> 0, type |-> "", data |-> NoData]]

parseSubtitleSource(j) ==
    LET text == IF hasNonNullKey(j, "text") THEN getString(j, "text") ELSE Ok("")
        iv == getInterval(j)
    IN IF ~text.ok THEN text
       ELSE IF ~iv.ok THEN iv
       ELSE [ok |-> TRUE,
             source |-> [kind |-> "subtitle", uri |-> "", in |-> iv.in,
                         out |-> iv.out, fps |-> 0, type |-> "", data |-> NoData]]

parseSource(j, track) ==
    IF track.subtype = "effects" THEN parseEffectSource(j)
    ELSE IF track.subtype \in {"transform", "colour", "pan", "level"} THEN parseTransformSource(j)
    ELSE IF track.type \in {"subtitle", "burnin"} THEN parseSubtitleSource(j)
    ELSE IF hasNonNullKey(j, "generate") THEN parseGenerateSource(j)
    ELSE IF hasNonNullKey(j, "location") THEN InvalidEdl("Location sources are not supported", 0)
    ELSE IF hasNonNullKey(j, "uri") THEN parseMediaSource(j)
    ELSE InvalidEdl("Unknown source type", 0)

\* Font/fonts, several sources and transition clips with sources are
\* rejected; the set of supported keys is written down in the function but no
\* key of the clip is compared with it.
checkUnsupportedClipFeatures(clip) ==
    IF hasNonNullKey(clip, "font") \/ hasNonNullKey(clip, "fonts")
    THEN InvalidEdl("Font/fonts in clips are not supported", 0)
    ELSE IF /\ hasNonNullKey(clip, "sources")
            /\ clip.v.sources.t = "array"
            /\ Len(clip.v.sources.v) > 1
    THEN InvalidEdl("Multiple sources in a single clip are not yet supported", 0)
    ELSE IF /\ hasNonNullKey(clip, "transition")
            /\ \/ hasNonNullKey(clip.v.transition, "source")
               \/ hasNonNullKey(clip.v.transition, "sources")
    THEN InvalidEdl("Transition clips with sources are not supported", 0)
    ELSE NoError

parseMotion(j) ==
    LET panX == getIfExistsFloat(j, "panX", 0)
    IN IF ~panX.ok THEN panX
       ELSE IF hasNonNullKey(j, "bezier")
            THEN InvalidEdl("Motion bezier curves are not supported", 0)
       ELSE Ok([panX |-> panX.v])

parseTransition(j) ==
    LET type == getIfExistsString(j, "type", "")
        duration == getIfExistsFloat(j, "duration", 0)
    IN IF ~type.ok THEN type
       ELSE IF ~duration.ok THEN duration
       ELSE Ok([type |-> type.v, duration |-> duration.v])

parseTextFormat(j) ==
    LET font == getIfExistsString(j, "font", "")
        fontSize == getIfExistsInt(j, "fontSize", 24)
    IN IF ~font.ok THEN font
       ELSE IF ~fontSize.ok THEN fontSize
       ELSE Ok([font |-> font.v, fontSize |-> fontSize.v])

INT_MAX == 2147483647

IsSpace(c) == c = 32 \/ (c >= 9 /\ c <= 13)
IsDigit(c) == c >= 48 /\ c <= 57

RECURSIVE SkipSpace(_)
SkipSpace(s) == IF s # << >> /\ IsSpace(Head(s)) THEN SkipSpace(Tail(s)) ELSE s

\* the largest value the digits read so far may have for one more digit d to
\* stay in the range of int, on the positive and on the negative side
Room(negative, d) ==
    IF negative /\ d > 0 THEN (INT_MAX - d + 1) \div 10 ELSE (INT_MAX - d) \div 10

\* the signed value of the leading digits of s, or the overflow of int
RECURSIVE DigitsValue(_, _, _)
DigitsValue(s, negative, acc) ==
    IF s = << >> \/ ~IsDigit(Head(s)) THEN Ok(acc)
    ELSE LET d == Head(s) - 48
         IN IF (IF negative THEN acc < -Room(negative, d) ELSE acc > Room(negative, d))
            THEN OutOfRange("stoi")
            ELSE DigitsValue(Tail(s), negative,
                             IF negative THEN 10 * acc - d ELSE 10 * acc + d)

\* std::stoi of a string given by its character codes: leading white space,
\* an optional sign, then digits; whatever follows the digits is ignored
stoi(codes) ==
    LET s == SkipSpace(codes)
        negative == s # << >> /\ Head(s) = 45
        digits == IF s # << >> /\ Head(s) \in {43, 45} THEN Tail(s) ELSE s
    IN IF digits = << >> \/ ~IsDigit(Head(digits)) THEN InvalidArgument("stoi")
       ELSE DigitsValue(digits, negative, 0)

\* the characters of the keys the documents use in channelMap
KeyCodes(key) ==
    CASE key = "1" -> <<49>>
      [] key = "2" -> <<50>>
      [] key = "0" -> <<48>>
      [] key = "129" -> <<49, 50, 57>>
      [] key = "1x" -> <<49, 120>>
      [] key = "left" -> <<108, 101, 102, 116>>
      [] key = "9999999999" -> <<57, 57, 57, 57, 57, 57, 57, 57, 57, 57>>
      [] OTHER -> << >>

\* std::string operator< : lexicographic order of the characters
RECURSIVE CodesLess(_, _)
CodesLess(a, b) ==
    IF Len(b) = 0 THEN FALSE
    ELSE IF Len(a) = 0 THEN TRUE
    ELSE IF Head(a) # Head(b) THEN Head(a) < Head(b)
    ELSE CodesLess(Tail(a), Tail(b))

\* the channelMap loop over items(), which come in the order of the keys
RECURSIVE parseChannelMap(_, _)
parseChannelMap(channelMap, keys) ==
    IF keys = {} THEN NoError
    ELSE LET key == CHOOSE k \in keys :
                        \A k2 \in keys \ {k} : CodesLess(KeyCodes(k), KeyCodes(k2))
             value == channelMap.v[key]
             channel == stoi(KeyCodes(key))
         IN IF ~channel.ok THEN channel
            ELSE IF channel.v < 1 \/ channel.v > 128
                 THEN InvalidEdl("Channel map key must be between 1 and 128", channel.v)
            ELSE IF ~is_number(value)
                 THEN InvalidEdl("Channel map values must be numbers", 0)
            ELSE IF AsTicks(value) # TimeDen
                 THEN InvalidEdl("Channel map level must be 1.0", 0)
            ELSE parseChannelMap(channelMap, keys \ {key})

\* the effects array of a clip: inline effects with a type and a strength
RECURSIVE parseEffects(_, _, _)
parseEffects(effectsArray, i, acc) ==
    IF i > Len(effectsArray) THEN Ok(acc)
    ELSE LET effectJson == effectsArray[i]
             type == getString(effectJson, "type")
             strength == IF hasNonNullKey(effectJson, "strength")
                         THEN getDouble(effectJson, "strength") ELSE Ok(TimeDen)
         IN IF effectJson.t # "object" THEN InvalidEdl("Each effect must be an object", 0)
            ELSE IF ~type.ok THEN type
            ELSE IF ~strength.ok THEN strength
            ELSE parseEffects(effectsArray, i + 1,
                    Append(acc, [type |-> type.v,
                                 strength |-> FloatFromDouble(DblFromTicks(strength.v))]))

\* the source of a clip, from source or from the single element of sources
parseClipSource(j, track) ==
    LET sourceKey == getUniqueNonNullKey(j, {"source", "sources"})
    IN IF ~sourceKey.ok THEN sourceKey
       ELSE IF sourceKey.v = "source"
       THEN LET sourceJson == getObject(j, "source")
            IN IF ~sourceJson.ok THEN sourceJson ELSE parseSource(sourceJson.v, track)
       ELSE LET sourcesArray == getArray(j, "sources")
            IN IF ~sourcesArray.ok THEN sourcesArray
               ELSE IF Len(sourcesArray.v.v) = 0
                    THEN InvalidEdl("Sources array cannot be empty", 0)
               ELSE IF Len(sourcesArray.v.v) > 1
                    THEN InvalidEdl("Multiple sources are not yet supported", 0)
               ELSE parseSource(sourcesArray.v.v[1], track)

\* the optional fields of a clip, in the order parseClip reads them
parseClipOptions(j) ==
    LET topFade == getIfExistsFloat(j, "topFade", 0)
        tailFade == getIfExistsFloat(j, "tailFade", 0)
        topFadeYUV == getIfExistsString(j, "topFadeYUV", "")
        tailFadeYUV == getIfExistsString(j, "tailFadeYUV", "")
        sync == getIfExistsInt(j, "sync", 0)
        motion == IF hasNonNullKey(j, "motion") THEN parseMotion(j.v.motion)
                  ELSE Ok([panX |-> 0])
        transition == IF hasNonNullKey(j, "transition") THEN parseTransition(j.v.transition)
                      ELSE Ok([type |-> "", duration |-> 0])
        textFormat == IF hasNonNullKey(j, "textFormat") THEN parseTextFormat(j.v.textFormat)
                      ELSE Ok([font |-> "", fontSize |-> 24])
        channelMapObject == getObject(j, "channelMap")
        channelMap == IF ~hasNonNullKey(j, "channelMap") THEN NoError
                      ELSE IF ~channelMapObject.ok THEN channelMapObject
                      ELSE parseChannelMap(channelMapObject.v, Keys(channelMapObject.v))
        effectsArray == getArray(j, "effects")
        effects == IF ~hasNonNullKey(j, "effects") THEN Ok(<< >>)
                   ELSE IF ~effectsArray.ok THEN effectsArray
                   ELSE parseEffects(effectsArray.v.v, 1, << >>)
    IN IF ~topFade.ok THEN topFade
       ELSE IF ~tailFade.ok THEN tailFade
       ELSE IF ~topFadeYUV.ok THEN topFadeYUV
       ELSE IF ~tailFadeYUV.ok THEN tailFadeYUV
       ELSE IF ~sync.ok THEN sync
       ELSE IF ~motion.ok THEN motion
       ELSE IF ~transition.ok THEN transition
       ELSE IF ~textFormat.ok THEN textFormat
       ELSE IF ~channelMap.ok THEN channelMap
       ELSE IF ~effects.ok THEN effects
       ELSE [ok |-> TRUE, topFade |-> topFade.v, tailFade |-> tailFade.v,
             effects |-> effects.v]

\* the clip built from its parsed parts, or the first error among them
ClipFrom(iv, tr, src, opt) ==
    IF ~src.ok THEN src
    ELSE IF ~opt.ok THEN opt
    ELSE [ok |-> TRUE,
          clip |-> [in |-> iv.in, out |-> iv.out, track |-> tr.track,
                    source |-> src.source, isNullClip |-> FALSE,
                    topFade |-> opt.topFade, tailFade |-> opt.tailFade,
                    effects |-> opt.effects]]

\* parseClip after the track is parsed: the source, then the optional fields
parseClipOnTrack(j, iv, tr) ==
    IF ~tr.ok THEN tr
    ELSE ClipFrom(iv, tr, parseClipSource(j, tr.track), parseClipOptions(j))

parseClip(j) ==
    LET unsupported == checkUnsupportedClipFeatures(j)
        iv == getInterval(j)
        trackJson == getObject(j, "track")
    IN IF ~unsupported.ok THEN unsupported
       ELSE IF ~iv.ok THEN iv
       ELSE IF ~trackJson.ok THEN trackJson
       ELSE parseClipOnTrack(j, iv, parseTrack(trackJson.v))

getTrackKey(track) ==
    IF track.type = "video"
    THEN IF track.subtype = "effects"
         THEN [ok |-> TRUE,
               key |-> "_effects_" \o IntStr(track.number) \o "_" \o IntStr(track.subnumber)]
         ELSE IF track.subtype \in {"transform", "colour"}
         THEN [ok |-> TRUE, key |-> "video_" \o IntStr(track.number) \o "_" \o track.subtype]
         ELSE IF track.subtype = ""
         THEN [ok |-> TRUE, key |-> "video_" \o IntStr(track.number)]
         ELSE InvalidEdl("Unknown video track subtype", 0)
    ELSE IF track.type = "audio"
    THEN IF track.subtype \in {"level", "pan"}
         THEN [ok |-> TRUE, key |-> "audio_" \o IntStr(track.number) \o "_" \o track.subtype]
         ELSE IF track.subtype = ""
         THEN [ok |-> TRUE, key |-> "audio_" \o IntStr(track.number)]
         ELSE InvalidEdl("Unknown audio track subtype", 0)
    ELSE IF track.type \in {"subtitle", "burnin"}
    THEN IF track.subtype = "transform"
         THEN [ok |-> TRUE, key |-> track.type \o "_" \o IntStr(track.number) \o "_transform"]
         ELSE IF track.subtype = ""
         THEN [ok |-> TRUE, key |-> track.type \o "_" \o IntStr(track.number)]
         ELSE InvalidEdl("Unknown track subtype", 0)
    ELSE InvalidEdl("Unsupported track type", 0)

NullClip(in, out, track) ==
    [in |-> in, out |-> out, track |-> track, source |-> NoSource, isNullClip |-> TRUE,
     topFade |-> 0, tailFade |-> 0, effects |-> << >>]

\* variant: the scan for the track duration stops at the first clip
LastOutOfFirst(track) == IF Len(track) = 0 THEN 0 ELSE track[1].out

\* the out point of the last clip of a track, 0.0 for an empty one
LastOut(track) == IF Len(track) = 0 THEN 0 ELSE track[Len(track)].out

\* first loop of alignTracksWithNullClips: organise the clips by track
RECURSIVE OrganizeClips(_, _, _)
OrganizeClips(clips, i, tracks) ==
    IF i > Len(clips) THEN [ok |-> TRUE, tracks |-> tracks]
    ELSE LET clip == clips[i]
             k == getTrackKey(clip.track)
         IN IF ~k.ok THEN k
            ELSE LET track == IF k.key \in DOMAIN tracks THEN tracks[k.key] ELSE << >>
                     trackDuration == LastOut(track)
                 IN IF trackDuration > clip.in
                    THEN InvalidEdl("Track has overlapping clips at time", clip.in)
                    ELSE LET filled == IF trackDuration < clip.in
                                       THEN Append(track, NullClip(trackDuration, clip.in, clip.track))
                                       ELSE track
                             newTrack == Append(filled, clip)
                         IN OrganizeClips(clips, i + 1,
                                [x \in DOMAIN tracks \cup {k.key} |->
                                    IF x = k.key THEN newTrack ELSE tracks[x]])

\* the overall EDL duration: the largest last out point over all tracks
MaxOver(S) == IF S = {} THEN 0
              ELSE LET x == CHOOSE y \in S : \A z \in S : z <= y IN x

EdlDuration(tracks) == MaxOver({LastOut(tracks[k]) : k \in DOMAIN tracks})

\* variant: the tracks are left as the first loop built them
ExtendTracksSkipped(tracks) == tracks

\* second loop: extend every track to the EDL duration
ExtendTracks(tracks) ==
    LET edlDuration == EdlDuration(tracks)
    IN [k \in DOMAIN tracks |->
          IF Len(tracks[k]) > 0 /\ LastOut(tracks[k]) < edlDuration
          THEN Append(tracks[k],
                      NullClip(LastOut(tracks[k]), edlDuration, tracks[k][Len(tracks[k])].track))
          ELSE tracks[k]]

\* keys that start with "_effects_" are the keys getTrackKey builds for the
\* effects subtype of a video track
IsEffectsKey(tracks, k) ==
    Len(tracks[k]) > 0 /\ tracks[k][1].track.type = "video"
                       /\ tracks[k][1].track.subtype = "effects"

\* the characters of an effects key after the common prefix
EffectsKeyCodes(track) == IntCodes(track.number) \o <<95>> \o IntCodes(track.subnumber)

\* variant: the effects tracks are numbered in the order of their track numbers
FxNumberNumeric(tracks, k) ==
    Cardinality({k2 \in DOMAIN tracks :
        /\ IsEffectsKey(tracks, k2)
        /\ tracks[k2][1].track.number < tracks[k][1].track.number})

\* fxTrackNum of an effects key: its position in the iteration of std::map
FxNumber(tracks, k) ==
    Cardinality({k2 \in DOMAIN tracks :
        /\ IsEffectsKey(tracks, k2)
        /\ CodesLess(EffectsKeyCodes(tracks[k2][1].track), EffectsKeyCodes(tracks[k][1].track))})

FxKey(tracks, k) == "fx_" \o IntStr(FxNumber(tracks, k))

\* third part: rename the effects tracks to fx tracks
RenameEffects(tracks) ==
    LET eff == {k \in DOMAIN tracks : IsEffectsKey(tracks, k)}
        keep == DOMAIN tracks \ eff
        fx == {FxKey(tracks, k) : k \in eff}
        old(n) == CHOOSE k \in eff : FxKey(tracks, k) = n
    IN [tracks |-> [n \in keep \cup fx |-> IF n \in keep THEN tracks[n] ELSE tracks[old(n)]],
        fxAppliesTo |-> [n \in fx |->
            getTrackKey([tracks[old(n)][1].track EXCEPT !.subtype = ""]).key]]

alignTracksWithNullClips(clips) ==
    LET org == OrganizeClips(clips, 1, [x \in {} |-> << >>])
    IN IF ~org.ok THEN org
       ELSE LET ren == RenameEffects(ExtendTracks(org.tracks))
            IN [ok |-> TRUE, tracks |-> ren.tracks, fxAppliesTo |-> ren.fxAppliesTo]

\* only fps, width, height and clips are supported at the level of the EDL
validateUnsupportedFeatures(j) == ensureOnlyKeys(j, {"fps", "width", "height", "clips"})

\* what a range-for over a JSON value visits: the elements of an array, the
\* value itself for a primitive, nothing for null (the documents hold no
\* object in such a place)
ElementsOf(x) ==
    IF x.t = "array" THEN x.v ELSE IF x.t = "null" THEN << >> ELSE <<x>>

\* the clip loop of parseJSON: parse every clip, drop the caption tracks
RECURSIVE parseClips(_, _, _)
\* the rest of the loop once clip i is parsed
parseClipsAfter(js, i, acc, c) ==
    IF ~c.ok THEN c
    ELSE parseClips(js, i + 1,
            IF c.clip.track.type = "caption" THEN acc ELSE Append(acc, c.clip))

parseClips(js, i, acc) ==
    IF i > Len(js) THEN [ok |-> TRUE, clips |-> acc]
    ELSE parseClipsAfter(js, i, acc, parseClip(js[i]))

NoEdl == [fps |-> 0, clips |-> << >>, tracks |-> [x \in {} |-> << >>],
          fxAppliesTo |-> [x \in {} |-> ""]]

\* an exception leaves parseJSON: nothing of the EDL under construction is
\* returned
Thrown(error) == [status |-> error.kind, error |-> error, edl |-> NoEdl]

\* the EDL of parseJSON once the clips are aligned
EdlFrom(fps, clips, al) ==
    IF ~al.ok THEN Thrown(al)
    ELSE [status |-> "ok", error |-> NoError,
          edl |-> [fps |-> fps, clips |-> clips, tracks |-> al.tracks,
                   fxAppliesTo |-> al.fxAppliesTo]]

\* parseJSON after the clip loop: the alignment of the tracks
parseJSONClips(fps, cs) ==
    IF ~cs.ok THEN Thrown(cs)
    ELSE EdlFrom(fps, cs.clips, alignTracksWithNullClips(cs.clips))

\* the result of parseJSON: an EDL, or the exception that left no EDL
parseJSON(j) ==
    LET unsupported == validateUnsupportedFeatures(j)
        fps == getIfExistsInt(j, "fps", 30)
        width == getIfExistsInt(j, "width", 1920)
        height == getIfExistsInt(j, "height", 1080)
    IN IF ~unsupported.ok THEN Thrown(unsupported)
       ELSE IF ~fps.ok THEN Thrown(fps)
       ELSE IF ~width.ok THEN Thrown(width)
       ELSE IF ~height.ok THEN Thrown(height)
       ELSE IF fps.v <= 0 THEN Thrown(InvalidEdl("FPS must be positive", fps.v))
       ELSE parseJSONClips(fps.v,
                IF contains(j, "clips") THEN parseClips(ElementsOf(j.v.clips), 1, << >>)
                ELSE [ok |-> TRUE, clips |-> << >>])

(***************************************************************************)
(* Instruction generator (src/compositor/InstructionGenerator.cpp)         *)
(***************************************************************************)
\* frameDuration(1.0 / edl.fps)
FrameDuration(e) == DblInv(e.fps)

\* variant: the time of the following frame
frameToTimeOfNext(e, frameNumber) == DblMulInt(FrameDuration(e), frameNumber + 1)

frameToTime(e, frameNumber) == DblMulInt(FrameDuration(e), frameNumber)

\* variant: the conversion truncates instead of rounding
timeToFrameTruncating(e, ticks) == BigTrunc(DblMulInt(DblFromTicks(ticks), e.fps))

timeToFrame(e, ticks) == BigRound(DblMulInt(DblFromTicks(ticks), e.fps))

\* the maximum of clip.out over edl.clips, starting from 0.0
MaxClipOut(e) == MaxOver({e.clips[i].out : i \in 1..Len(e.clips)})

\* the constructor: totalFrames from the largest out point
TotalFrames(e) == timeToFrame(e, MaxClipOut(e))

\* frameTime >= clip.in && frameTime < clip.out
ActiveAt(clip, frameTime) ==
    /\ BigGeq(frameTime, DblFromTicks(clip.in))
    /\ BigLess(frameTime, DblFromTicks(clip.out))

NoClip == [found |-> FALSE, clip |-> NullClip(0, 0, [type |-> "video", number |-> 0,
                                                      subtype |-> "", subnumber |-> 1])]

\* the first element of a clip sequence whose index is in the set of matches
FirstClip(clips, matches) ==
    IF matches = {} THEN NoClip
    ELSE [found |-> TRUE, clip |-> clips[CHOOSE i \in matches : \A k \in matches : i <= k]]

findClipAtFrame(e, frameNumber, trackNumber) ==
    LET frameTime == frameToTime(e, frameNumber)
        trackKey == "video_" \o IntStr(trackNumber)
        organized == IF trackKey \in DOMAIN e.tracks
                     THEN FirstClip(e.tracks[trackKey],
                            {i \in 1..Len(e.tracks[trackKey]) :
                                ActiveAt(e.tracks[trackKey][i], frameTime)})
                     ELSE NoClip
    IN IF organized.found THEN organized
       ELSE FirstClip(e.clips,
                {i \in 1..Len(e.clips) :
                    /\ e.clips[i].track.type = "video"
                    /\ e.clips[i].track.number = trackNumber
                    /\ e.clips[i].track.subtype = ""
                    /\ ActiveAt(e.clips[i], frameTime)})

getSourceFrameNumber(e, clip, timelineFrame) ==
    LET timelineTime == frameToTime(e, timelineFrame)
        positionInClip == DblSub(timelineTime, DblFromTicks(clip.in))
    IN IF clip.source.kind = "media"
       THEN LET sourceTime == DblAdd(DblFromTicks(clip.source.in), positionInClip)
                sourceFps == IF clip.source.fps > 0 THEN clip.source.fps ELSE e.fps
            IN BigTrunc(DblMulInt(sourceTime, sourceFps))
       ELSE IF clip.source.kind = "generate" THEN timelineFrame
       ELSE 0

\* a CompositorInstruction with the defaults of its members
Instruction(type, trackNumber, uri, sourceFrameNumber) ==
    [type |-> type, trackNumber |-> trackNumber, uri |-> uri,
     sourceFrameNumber |-> sourceFrameNumber, fade |-> FloatOne, effects |-> << >>]

\* variant: the top ramp falls from 1 to 0 instead of rising
FadeInverted(e, clip, frameNumber) ==
    LET frameTime == frameToTime(e, frameNumber)
        clipDuration == DblFromTicks(clip.out - clip.in)
        positionInClip == DblSub(frameTime, DblFromTicks(clip.in))
        top == IF clip.topFade > 0 /\ BigLess(positionInClip, DblFromTicks(clip.topFade))
               THEN FloatOfQuotient(DblSub(DblFromTicks(clip.topFade), positionInClip),
                                    clip.topFade)
               ELSE FloatOne
        tailStart == (clip.out - clip.in) - clip.tailFade
    IN IF /\ clip.tailFade > 0
          /\ (tailStart < 0 \/ BigLess(DblFromTicks(tailStart), positionInClip))
       THEN FloatMin(top, FloatOfQuotient(DblSub(clipDuration, positionInClip), clip.tailFade))
       ELSE top

\* the fade of a frame of a clip: the rising ramp of the top fade, and the
\* minimum of it and the falling ramp of the tail fade
Fade(e, clip, frameNumber) ==
    LET frameTime == frameToTime(e, frameNumber)
        clipDuration == DblFromTicks(clip.out - clip.in)
        positionInClip == DblSub(frameTime, DblFromTicks(clip.in))
        top == IF clip.topFade > 0 /\ BigLess(positionInClip, DblFromTicks(clip.topFade))
               THEN FloatOfQuotient(positionInClip, clip.topFade)
               ELSE FloatOne
        tailStart == (clip.out - clip.in) - clip.tailFade
    IN IF /\ clip.tailFade > 0
          /\ (tailStart < 0 \/ BigLess(DblFromTicks(tailStart), positionInClip))
       THEN FloatMin(top, FloatOfQuotient(DblSub(clipDuration, positionInClip), clip.tailFade))
       ELSE top

\* the Effect::Type of an effect name; the type member has no initializer, so
\* any other name leaves it indeterminate
EffectType(name) ==
    IF name = "brightness" THEN "Brightness"
    ELSE IF name = "contrast" THEN "Contrast"
    ELSE IF name = "saturation" THEN "Saturation"
    ELSE "indeterminate"

\* the loop over clip.effects: one instruction effect per inline effect
InlineEffects(clip) ==
    [i \in 1..Len(clip.effects) |->
        [type |-> EffectType(clip.effects[i].type),
         strength |-> IF EffectType(clip.effects[i].type) = "indeterminate"
                      THEN FloatOne ELSE clip.effects[i].strength]]

createInstruction(e, clip, frameNumber) ==
    IF clip.isNullClip
    THEN Instruction("GenerateColor", clip.track.number, "", 0)
    ELSE [Instruction(
            IF clip.source.kind = "media" THEN "DrawFrame"
            ELSE IF clip.source.kind = "generate" THEN "GenerateColor"
            ELSE "NoOp",
            clip.track.number,
            IF clip.source.kind = "media" THEN clip.source.uri ELSE "",
            getSourceFrameNumber(e, clip, frameNumber))
          EXCEPT !.fade = Fade(e, clip, frameNumber),
                 !.effects = InlineEffects(clip)]

\* the first clip of edl.clips on the effects track of the video track that
\* is active at the frame
findEffectClipAtFrame(e, frameNumber, trackNumber) ==
    LET frameTime == frameToTime(e, frameNumber)
    IN FirstClip(e.clips,
            {i \in 1..Len(e.clips) :
                /\ e.clips[i].track.type = "video"
                /\ e.clips[i].track.number = trackNumber
                /\ e.clips[i].track.subtype = "effects"
                /\ ActiveAt(e.clips[i], frameTime)})

\* an effect source with a value appends one effect to the instruction
applyEffectClip(instruction, effectClip) ==
    IF effectClip.source.kind # "effect" THEN instruction
    ELSE IF "value" \notin DOMAIN effectClip.source.data THEN instruction
    ELSE [instruction EXCEPT !.effects =
            Append(@, [type |-> EffectType(effectClip.source.type),
                       strength |-> IF EffectType(effectClip.source.type) = "indeterminate"
                                    THEN FloatOne
                                    ELSE FloatFromDouble(
                                            DblFromTicks(effectClip.source.data["value"]))])]

\* variant: the effect clip is looked up but not applied
getInstructionWithoutEffectClip(e, frameNumber) ==
    LET c == findClipAtFrame(e, frameNumber, 1)
    IN IF ~c.found THEN Instruction("GenerateColor", 0, "", 0)
       ELSE createInstruction(e, c.clip, frameNumber)

getInstructionForFrame(e, frameNumber) ==
    LET c == findClipAtFrame(e, frameNumber, 1)
    IN IF ~c.found THEN Instruction("GenerateColor", 0, "", 0)
       ELSE LET instruction == createInstruction(e, c.clip, frameNumber)
                effectClip == findEffectClipAtFrame(e, frameNumber, c.clip.track.number)
            IN IF effectClip.found THEN applyEffectClip(instruction, effectClip.clip)
               ELSE instruction

\* Iterator(this, 0) and Iterator(this, totalFrames)
NoInstruction == Instruction("DrawFrame", 0, "", 0)
Iterator(frameNumber) ==
    [frameNumber |-> frameNumber, currentValid |-> FALSE, current |-> NoInstruction]
begin == Iterator(0)
end(totalFrames) == Iterator(totalFrames)

\* enum Effect::Type
EffectTypes == {"Brightness", "Contrast", "Saturation", "Blur", "Sharpen"}

\* what a call of getInstructionForFrame can return: an effect whose type
\* was left indeterminate holds whatever the memory held, a value that may
\* differ from call to call
InstructionOutcomes(ins) ==
    UNION {{[i EXCEPT !.effects = fx] :
              fx \in {s \in [1..Len(i.effects) ->
                                [type : EffectTypes,
                                 strength : {i.effects[k].strength : k \in 1..Len(i.effects)}]] :
                        \A k \in 1..Len(s) :
                            /\ s[k].strength = i.effects[k].strength
                            /\ i.effects[k].type # "indeterminate"
                                  => s[k].type = i.effects[k].type}} :
           i \in {ins}}

\* operator*: fills the one-value cache when it is not valid; the iterator
\* afterwards, one for every value the call can return
IterDeref(e, it) ==
    IF it.currentValid THEN {it}
    ELSE {[it EXCEPT !.current = c, !.currentValid = TRUE] :
            c \in InstructionOutcomes(getInstructionForFrame(e, it.frameNumber))}

\* operator++
IterIncrement(it) == [it EXCEPT !.frameNumber = it.frameNumber + 1, !.currentValid = FALSE]

\* operator!=
IterNotEqual(it, other) == it.frameNumber # other.frameNumber

(***************************************************************************)
(* Documents, and the idle values of the components a specification does   *)
(* not exercise                                                            *)
(***************************************************************************)
VideoTrack1 == JObj([type |-> JStr("video"), number |-> JInt(1)])
EffectsTrack1 ==
    JObj([type |-> JStr("video"), number |-> JInt(1), subtype |-> JStr("effects")])
AudioTrack1 == JObj([type |-> JStr("audio"), number |-> JInt(1)])

UriSource(uri, in, out) == JObj([uri |-> JStr(uri), in |-> JReal(in), out |-> JReal(out)])
UriSourceFps(uri, in, out, fps) ==
    JObj([uri |-> JStr(uri), in |-> JReal(in), out |-> JReal(out), fps |-> JInt(fps)])
BlackSource(in, out) ==
    JObj([generate |-> JObj([type |-> JStr("black")]), in |-> JReal(in), out |-> JReal(out),
          width |-> JInt(16), height |-> JInt(16)])
EffectJson(in, out) ==
    JObj([type |-> JStr("brightness"), in |-> JReal(in), out |-> JReal(out),
          value |-> JReal(3)])

ClipJson(in, out, track, source) ==
    JObj([in |-> JReal(in), out |-> JReal(out), track |-> track, source |-> source])

\* a document with the given frame rate and clips
EdlJson(fps, clips) ==
    JObj([fps |-> JInt(fps), width |-> JInt(16), height |-> JInt(16), clips |-> JArr(clips)])

SeqsUpTo(S, n) == UNION {[1..k -> S] : k \in 0..n}

\* the timeline intervals in < out up to a bound, in ticks
Intervals(maxTick) == {<<a, b>> \in (0..maxTick) \X (1..maxTick) : a < b}

ParseClipChoices ==
    {ClipJson(ab[1], ab[2], t,
              IF "subtype" \in DOMAIN t.v THEN EffectJson(0, ab[2] - ab[1])
              ELSE UriSource("a.mp4", 0, ab[2] - ab[1])) :
        ab \in Intervals(MaxTick), t \in {VideoTrack1, EffectsTrack1, AudioTrack1}}

ParseDocs == {EdlJson(30, cs) : cs \in SeqsUpTo(ParseClipChoices, MaxClips)}

GenFps == {3, 30}

GenClipChoices ==
    {ClipJson(ab[1], ab[2], VideoTrack1, src) :
        ab \in Intervals(GenMaxTick),
        src \in {UriSource("a.mp4", 0, 8), UriSourceFps("b.mp4", 2, 8, 60), BlackSource(0, 8)}}

\* documents whose clips follow one another on video track 1, with or
\* without gaps between them
GenDocs ==
    {EdlJson(f, cs) :
        f \in GenFps,
        cs \in {c \in SeqsUpTo(GenClipChoices, GenMaxClips) :
                    \A i \in 1..(Len(c) - 1) : c[i].v.out.v <= c[i + 1].v.in.v}}

NoDoc == EdlJson(30, << >>)
Unparsed == [status |-> "none", error |-> NoError, edl |-> NoEdl]
GenIdle == [pc |-> "idle", totalFrames |-> 0, it |-> begin, yieldCount |-> 0,
            lastFrame |-> -1, last |-> NoInstruction]
DecIdle == [pc |-> "idle"]
EncIdle == [pc |-> "idle"]
RunIdle == [pc |-> "idle"]
PoolIdle == [pc |-> "idle"]
HwIdle == [pc |-> "idle"]

(***************************************************************************)
(* Parser specification: parseJSON applied to every document               *)
(***************************************************************************)
ParseJSON ==
    /\ edl.status = "none"
    /\ gen.pc \in {"idle", "start"}
    /\ edl' = parseJSON(doc)
    /\ gen' = IF gen.pc = "start"
              THEN [gen EXCEPT !.pc = IF edl'.status = "ok" THEN "parsed" ELSE "rejected"]
              ELSE gen
    /\ UNCHANGED <<pool, hwctx, doc, dec, enc, run>>

InitParse ==
    /\ doc \in ParseDocs
    /\ edl = Unparsed
    /\ gen = GenIdle
    /\ dec = DecIdle
    /\ enc = EncIdle
    /\ run = RunIdle
    /\ pool = PoolIdle
    /\ hwctx = HwIdle

NextParse == ParseJSON

SpecParse == InitParse /\ [][NextParse]_vars

(***************************************************************************)
(* Generator specification: a document is parsed, the generator is         *)
(* constructed over the EDL and a range-for loop walks begin() .. end()    *)
(***************************************************************************)
\* InstructionGenerator::InstructionGenerator
NewGenerator ==
    /\ gen.pc = "parsed"
    /\ gen' = [gen EXCEPT !.pc = "ready", !.totalFrames = TotalFrames(edl.edl)]
    /\ UNCHANGED <<pool, hwctx, doc, edl, dec, enc, run>>

\* for (const auto& instruction : generator): the loop header
ForBegin ==
    /\ gen.pc = "ready"
    /\ gen' = [gen EXCEPT !.pc = "loop", !.it = begin, !.yieldCount = 0, !.lastFrame = -1]
    /\ UNCHANGED <<pool, hwctx, doc, edl, dec, enc, run>>

\* one iteration: it != end(), *it is bound to the loop variable, ++it
ForStep ==
    /\ gen.pc = "loop"
    /\ IterNotEqual(gen.it, end(gen.totalFrames))
    /\ \E d \in IterDeref(edl.edl, gen.it) :
          gen' = [gen EXCEPT !.it = IterIncrement(d),
                             !.yieldCount = gen.yieldCount + 1,
                             !.lastFrame = gen.it.frameNumber,
                             !.last = d.current]
    /\ UNCHANGED <<pool, hwctx, doc, edl, dec, enc, run>>

\* the loop ends when it != end() is false
ForEnd ==
    /\ gen.pc = "loop"
    /\ ~IterNotEqual(gen.it, end(gen.totalFrames))
    /\ gen' = [gen EXCEPT !.pc = "done"]
    /\ UNCHANGED <<pool, hwctx, doc, edl, dec, enc, run>>

InitGen ==
    /\ doc \in GenDocs
    /\ edl = Unparsed
    /\ gen = [GenIdle EXCEPT !.pc = "start"]
    /\ dec = DecIdle
    /\ enc = EncIdle
    /\ run = RunIdle
    /\ pool = PoolIdle
    /\ hwctx = HwIdle

NextGen == ParseJSON \/ NewGenerator \/ ForBegin \/ ForStep \/ ForEnd

SpecGen == InitGen /\ [][NextGen]_vars

(***************************************************************************)
(* Properties of the parser and of the instruction generator               *)
(***************************************************************************)
\* the frame rate and the clips the document gives: in and out in ticks, and
\* the track object
DocFps == doc.v.fps.v
DocClips ==
    [i \in 1..Len(doc.v.clips.v) |->
        [in |-> doc.v.clips.v[i].v.in.v, out |-> doc.v.clips.v[i].v.out.v,
         track |-> doc.v.clips.v[i].v.track]]

\* the track a clip object of the document names, and its key
DocTrack(j) == parseTrack(j.track).track
DocKey(j) == getTrackKey(DocTrack(j)).key

\* round(maxClipOut * fps) in exact arithmetic, halves away from zero
DocMaxOut == MaxOver({DocClips[i].out : i \in 1..Len(DocClips)})
ExactTotalFrames == (2 * DocMaxOut * DocFps + TimeDen) \div (2 * TimeDen)

\* C2: a completed begin()..end() iteration has yielded exactly
\* round(maxClipOut * fps) instructions, which is also getTotalFrames(), and
\* the k-th instruction yielded is the instruction of timeline frame k.
C2_StreamLength ==
    /\ gen.pc = "done" =>
          /\ gen.yieldCount = ExactTotalFrames
          /\ gen.totalFrames = ExactTotalFrames
    /\ (gen.pc \in {"loop", "done"} /\ gen.yieldCount > 0) =>
          /\ gen.lastFrame = gen.yieldCount - 1
          /\ gen.last = getInstructionForFrame(edl.edl, gen.yieldCount - 1)

\* a completed iteration over an EDL whose frame count is rounded up from a
\* half (5 ticks at 30 fps: 37.5 frames)
C2_Witness ==
    /\ gen.pc = "done"
    /\ gen.yieldCount = 38
    /\ Len(DocClips) = 2

\* the key of the track a clip sequence of edl.tracks belongs to
TrackIdentity(track) == getTrackKey(track[1].track).key

\* the clips of the document on the track of the given key, in document order
RECURSIVE DocClipsOf(_, _)
DocClipsOf(key, i) ==
    IF i > Len(edl.edl.clips) THEN << >>
    ELSE (IF getTrackKey(edl.edl.clips[i].track).key = key
          THEN <<edl.edl.clips[i]>> ELSE << >>) \o DocClipsOf(key, i + 1)

RECURSIVE NonNullClips(_, _)
NonNullClips(track, i) ==
    IF i > Len(track) THEN << >>
    ELSE (IF track[i].isNullClip THEN << >> ELSE <<track[i]>>) \o NonNullClips(track, i + 1)

TilesExactly(track, duration) ==
    /\ Len(track) > 0
    /\ track[1].in = 0
    /\ track[Len(track)].out = duration
    /\ \A i \in 1..Len(track) : track[i].in < track[i].out
    /\ \A i \in 1..(Len(track) - 1) : track[i + 1].in = track[i].out

\* C3: in an accepted EDL the clips of every track tile [0, edlDuration)
\* without overlap, and the null clips are exactly the clips that are not
\* clips of the document (they fill what the document leaves open).
C3_TrackCoverage ==
    edl.status = "ok" =>
        \A k \in DOMAIN edl.edl.tracks :
            LET track == edl.edl.tracks[k]
            IN /\ TilesExactly(track, MaxOver({edl.edl.clips[i].out : i \in 1..Len(edl.edl.clips)}))
               /\ NonNullClips(track, 1) = DocClipsOf(TrackIdentity(track), 1)

\* an accepted EDL with two tracks, one with a gap before its first clip and
\* one that ends early
C3_Witness ==
    /\ edl.status = "ok"
    /\ Cardinality(DOMAIN edl.edl.tracks) >= 2
    /\ \E k \in DOMAIN edl.edl.tracks :
          /\ Len(edl.edl.tracks[k]) = 3
          /\ edl.edl.tracks[k][1].isNullClip
          /\ ~edl.edl.tracks[k][2].isNullClip
          /\ edl.edl.tracks[k][3].isNullClip
    /\ \E k \in DOMAIN edl.edl.tracks :
          /\ Len(edl.edl.tracks[k]) = 3
          /\ edl.edl.tracks[k][2].isNullClip

\* the out point of the clip preceding clip i of the document on its track
\* (0 when there is none)
PrecedingOut(i) ==
    LET same == {p \in 1..(i - 1) : DocKey(DocClips[p]) = DocKey(DocClips[i])}
    IN IF same = {} THEN 0
       ELSE DocClips[CHOOSE p \in same : \A q \in same : q <= p].out

OverlappingClips == {i \in 1..Len(DocClips) : DocClips[i].in < PrecedingOut(i)}

\* the position in edl.tracks of the clip parsed from clip i of the document
PositionInTrack(track, i) ==
    CHOOSE n \in 1..Len(track) :
        /\ ~track[n].isNullClip
        /\ track[n].in = DocClips[i].in
        /\ track[n].out = DocClips[i].out

\* C7: a document is rejected for overlap, with the start time of the first
\* overlapping clip, exactly when some clip starts before the out point of
\* the preceding clip of the same track key; otherwise it is accepted and a
\* null clip precedes every clip that starts after the preceding out point.
C7_OverlapRejection ==
    edl.status # "none" =>
        /\ (edl.status = "InvalidEdl") <=> (OverlappingClips # {})
        /\ edl.status = "InvalidEdl" =>
              /\ edl.error.kind = "InvalidEdl"
              /\ edl.error.message = "Track has overlapping clips at time"
              /\ edl.error.at =
                    DocClips[CHOOSE i \in OverlappingClips :
                                \A k \in OverlappingClips : i <= k].in
              /\ edl.edl = NoEdl
        /\ edl.status = "ok" =>
              \A i \in 1..Len(DocClips) :
                  \E k \in DOMAIN edl.edl.tracks :
                      LET track == edl.edl.tracks[k]
                      IN /\ TrackIdentity(track) = DocKey(DocClips[i])
                         /\ LET n == PositionInTrack(track, i)
                            IN (PrecedingOut(i) < DocClips[i].in) <=>
                                  /\ n > 1
                                  /\ track[n - 1].isNullClip
                                  /\ track[n - 1].in = PrecedingOut(i)
                                  /\ track[n - 1].out = DocClips[i].in

\* a document rejected because its third clip starts inside the second one
C7_Witness ==
    /\ edl.status = "InvalidEdl"
    /\ edl.error.message = "Track has overlapping clips at time"
    /\ edl.error.at = 2
    /\ OverlappingClips = {3}

\* the source frame of timeline frame f of a media clip in exact arithmetic:
\* floor((source.in + f/fps - clip.in) * srcFps)
ExactSourceFrame(clip, f) ==
    LET srcFps == IF clip.source.fps > 0 THEN clip.source.fps ELSE DocFps
    IN (srcFps * ((clip.source.in - clip.in) * DocFps + f * TimeDen))
          \div (TimeDen * DocFps)

\* the media clips of video track 1 that timeline frame f falls inside
MediaClipsAt(f) ==
    {i \in 1..Len(edl.edl.clips) :
        /\ edl.edl.clips[i].source.kind = "media"
        /\ edl.edl.clips[i].in * DocFps <= f * TimeDen
        /\ f * TimeDen < edl.edl.clips[i].out * DocFps}

\* C8: the instruction of a timeline frame inside a media clip is a DrawFrame
\* whose sourceFrameNumber is floor((source.in + f/fps - clip.in) * srcFps).
C8_SourceFrameNumber ==
    (gen.pc \in {"loop", "done"} /\ gen.yieldCount > 0) =>
        \A i \in MediaClipsAt(gen.lastFrame) :
            /\ gen.last.type = "DrawFrame"
            /\ gen.last.sourceFrameNumber = ExactSourceFrame(edl.edl.clips[i], gen.lastFrame)

(***************************************************************************)
(* FFmpegDecoder: frame positioning                                        *)
(*                                                                         *)
(* position is the index of the frame the next successful decode yields    *)
(* (the state of the demuxer and of the codec, which the program cannot    *)
(* read); currentFrameNumber is the decoder's own count.                   *)
(***************************************************************************)
\* frames of the source file, and the distance between its keyframes
DecFrames == 62
DecGop == 25

\* "more than 60 frames ahead" in seekToFrame
SeekAheadLimit == 60

\* the outcome of a call as the caller sees it: the operation, the frame
\* number asked for, whether it succeeded and with which source frame; and,
\* for the checks, currentFrameNumber before the call and what seekToFrame
\* did: sought when av_seek_frame was called, seeked when it succeeded
NoCall == [op |-> "none", n |-> -1, ok |-> FALSE, frame |-> -1, before |-> -1,
           sought |-> FALSE, seeked |-> FALSE, noWork |-> FALSE]

\* the state of a decoder after open(): nothing decoded yet
OpenDecoder(totalFrames, gop) ==
    [pc |-> "open", totalFrames |-> totalFrames, gop |-> gop, usingHardware |-> FALSE,
     currentFrameNumber |-> -1, position |-> 0, last |-> NoCall]

\* av_seek_frame with AVSEEK_FLAG_BACKWARD: the last keyframe at or before
\* the target
KeyframeAtOrBefore(d, n) == n - (n % d.gop)

\* one successful decode advances the stream and the decoder's count;
\* at the end of the stream there is nothing to decode
decodeNextFrame(d) ==
    IF d.position < d.totalFrames
    THEN [ok |-> TRUE, frame |-> d.position,
          d |-> [d EXCEPT !.currentFrameNumber = @ + 1, !.position = @ + 1]]
    ELSE [ok |-> FALSE, frame |-> -1, d |-> d]

\* the same loop without the transfer of the frame to system memory
decodeNextHardwareFrame(d) ==
    IF d.position < d.totalFrames
    THEN [ok |-> TRUE, frame |-> d.position,
          d |-> [d EXCEPT !.currentFrameNumber = @ + 1, !.position = @ + 1]]
    ELSE [ok |-> FALSE, frame |-> -1, d |-> d]

\* while (currentFrameNumber < frameNumber - 1) decodeNextFrame
RECURSIVE DecodeUntil(_, _)
\* the rest of the loop after one decode
DecodeUntilAfter(r, frameNumber) ==
    IF r.ok THEN DecodeUntil(r.d, frameNumber) ELSE [ok |-> FALSE, d |-> r.d]

DecodeUntil(d, frameNumber) ==
    IF d.currentFrameNumber < frameNumber - 1
    THEN DecodeUntilAfter(decodeNextFrame(d), frameNumber)
    ELSE [ok |-> TRUE, d |-> d]

\* what seekToFrame returns, with the decoder after the decode loop
Sought(r, sought, seeked) ==
    [ok |-> r.ok, d |-> r.d, sought |-> sought, seeked |-> seeked, noWork |-> FALSE]

\* variant: a forward jump is never answered with a seek
seekToFrameBackwardOnly(d, frameNumber, seekOk) ==
    IF frameNumber < 0 \/ frameNumber >= d.totalFrames
    THEN Sought([ok |-> FALSE, d |-> d], FALSE, FALSE)
    ELSE IF d.currentFrameNumber = frameNumber
    THEN [ok |-> TRUE, d |-> d, sought |-> FALSE, seeked |-> FALSE, noWork |-> TRUE]
    ELSE IF d.currentFrameNumber > frameNumber
    THEN IF ~seekOk
         THEN Sought([ok |-> FALSE, d |-> d], TRUE, FALSE)
         ELSE Sought(DecodeUntil([d EXCEPT !.currentFrameNumber = -1,
                                           !.position = KeyframeAtOrBefore(d, frameNumber)],
                                 frameNumber), TRUE, TRUE)
    ELSE Sought(DecodeUntil(d, frameNumber), FALSE, FALSE)

seekToFrame(d, frameNumber, seekOk) ==
    IF frameNumber < 0 \/ frameNumber >= d.totalFrames
    THEN Sought([ok |-> FALSE, d |-> d], FALSE, FALSE)
    ELSE IF d.currentFrameNumber = frameNumber
    THEN [ok |-> TRUE, d |-> d, sought |-> FALSE, seeked |-> FALSE, noWork |-> TRUE]
    ELSE IF \/ d.currentFrameNumber > frameNumber
            \/ d.currentFrameNumber < frameNumber - SeekAheadLimit
    THEN IF ~seekOk
         THEN Sought([ok |-> FALSE, d |-> d], TRUE, FALSE)
         ELSE Sought(DecodeUntil([d EXCEPT !.currentFrameNumber = -1,
                                           !.position = KeyframeAtOrBefore(d, frameNumber)],
                                 frameNumber), TRUE, TRUE)
    ELSE Sought(DecodeUntil(d, frameNumber), FALSE, FALSE)

\* the decoder after a call, with the outcome of the call in .last
Returned(d, op, frameNumber, before, s, r) ==
    [d EXCEPT !.last = [op |-> op, n |-> frameNumber, ok |-> r.ok, frame |-> r.frame,
                        before |-> before, sought |-> s.sought, seeked |-> s.seeked,
                        noWork |-> s.noWork]]

\* getFrame after seekToFrame returned s
getFrameAfterSeek(d, op, frameNumber, s) ==
    IF ~s.ok
    THEN Returned(s.d, op, frameNumber, d.currentFrameNumber, s, [ok |-> FALSE, frame |-> -1])
    ELSE Returned(decodeNextFrame(s.d).d, op, frameNumber, d.currentFrameNumber, s,
                  decodeNextFrame(s.d))

getFrame(d, frameNumber, seekOk) ==
    getFrameAfterSeek(d, "getFrame", frameNumber, seekToFrame(d, frameNumber, seekOk))

\* getHardwareFrame after seekToFrame returned s
getHardwareFrameAfterSeek(d, frameNumber, s) ==
    IF ~s.ok
    THEN Returned(s.d, "getHardwareFrame", frameNumber, d.currentFrameNumber, s,
                  [ok |-> FALSE, frame |-> -1])
    ELSE Returned(decodeNextHardwareFrame(s.d).d, "getHardwareFrame", frameNumber,
                  d.currentFrameNumber, s, decodeNextHardwareFrame(s.d))

\* getHardwareFrame: getFrame when hardware decoding is not enabled
getHardwareFrame(d, frameNumber, seekOk) ==
    IF ~d.usingHardware
    THEN getFrameAfterSeek(d, "getHardwareFrame", frameNumber,
                           seekToFrame(d, frameNumber, seekOk))
    ELSE getHardwareFrameAfterSeek(d, frameNumber, seekToFrame(d, frameNumber, seekOk))

\* seekToFrame called on its own
seekToFrameAlone(d, frameNumber, s) ==
    Returned(s.d, "seekToFrame", frameNumber, d.currentFrameNumber, s,
             [ok |-> s.ok, frame |-> -1])

\* the frame numbers a caller asks for: outside the file on both sides, the
\* first frames, the frames around a keyframe and the last frames
Requests(d) ==
    {-1, 0, 1, 2, d.gop - 1, d.gop, d.gop + 1,
     d.totalFrames - 2, d.totalFrames - 1, d.totalFrames}

SeekToFrame ==
    /\ dec.pc = "open"
    /\ \E n \in Requests(dec), seekOk \in BOOLEAN :
          dec' = seekToFrameAlone(dec, n, seekToFrame(dec, n, seekOk))
    /\ UNCHANGED <<pool, hwctx, doc, edl, gen, enc, run>>

GetFrame ==
    /\ dec.pc = "open"
    /\ \E n \in Requests(dec), seekOk \in BOOLEAN :
          dec' = getFrame(dec, n, seekOk)
    /\ UNCHANGED <<pool, hwctx, doc, edl, gen, enc, run>>

GetHardwareFrame ==
    /\ dec.pc = "open"
    /\ \E n \in Requests(dec), seekOk \in BOOLEAN :
          dec' = getHardwareFrame(dec, n, seekOk)
    /\ UNCHANGED <<pool, hwctx, doc, edl, gen, enc, run>>

InitDec ==
    /\ doc = NoDoc
    /\ edl = Unparsed
    /\ gen = GenIdle
    /\ dec \in {[OpenDecoder(DecFrames, g) EXCEPT !.usingHardware = h] :
                  g \in {DecGop, DecFrames}, h \in BOOLEAN}
    /\ enc = EncIdle
    /\ run = RunIdle
    /\ pool = PoolIdle
    /\ hwctx = HwIdle

NextDec == SeekToFrame \/ GetFrame \/ GetHardwareFrame

SpecDec == InitDec /\ [][NextDec]_vars

ASYNC_QUEUE_SIZE == 16

\* the destructor's safety drain gives up after this many packets
SafetyDrainLimit == 100

\* upper limits of the two drain loops of finalize in async mode
FlushAttemptLimit == 100
FlushIterationLimit == 1000

HwTypes == {"none", "nvenc", "vaapi", "videotoolbox"}

\* HardwareAcceleration::getHWEncoderName for H.264
HWEncoderName(hwType) ==
    CASE hwType = "nvenc" -> "h264_nvenc"
      [] hwType = "vaapi" -> "h264_vaapi"
      [] hwType = "videotoolbox" -> "h264_videotoolbox"
      [] OTHER -> ""

\* codecName.find(...) != npos, for the codec names of the model
NameHas(codecName, part) ==
    \/ part = "nvenc" /\ codecName = "h264_nvenc"
    \/ part = "vaapi" /\ codecName = "h264_vaapi"
    \/ part = "videotoolbox" /\ codecName = "h264_videotoolbox"

IsHardwareName(codecName) ==
    \E part \in {"nvenc", "vaapi", "videotoolbox"} : NameHas(codecName, part)

\* "Map codec names to IDs": the names that get a codec id
MappedCodecs == {"libx264", "h264", "libx265", "hevc"}

\* setupEncoder, "Try hardware encoder if requested": the codec chosen, or
\* found = FALSE when the software fallback has to look for one
SelectHardwareCodec(config, env) ==
    LET none == [found |-> FALSE, codecName |-> config.codec, usingHardware |-> FALSE,
                 hwDeviceCtx |-> FALSE, ownHwDeviceCtx |-> FALSE]
    IN IF ~(/\ config.useHardwareEncoder
            /\ config.codec \in MappedCodecs
            /\ config.hwType # "none"
            /\ env.hwCodecFound)
       THEN none
       ELSE LET name == HWEncoderName(config.hwType)
            IN IF config.hwType = "videotoolbox"
               THEN [found |-> TRUE, codecName |-> name, usingHardware |-> TRUE,
                     hwDeviceCtx |-> FALSE, ownHwDeviceCtx |-> FALSE]
               ELSE IF ~env.hwContextOk
               THEN [none EXCEPT !.codecName = name]
               ELSE [found |-> TRUE, codecName |-> name, usingHardware |-> TRUE,
                     hwDeviceCtx |-> TRUE,
                     ownHwDeviceCtx |-> ~config.externalHwDeviceCtx]

\* setupEncoder, "Fall back to software encoder", with the detection of
\* hardware encoders by name
SelectFallbackCodec(config, env) ==
    IF ~IsHardwareName(config.codec)
    THEN [found |-> TRUE, codecName |-> config.codec, usingHardware |-> FALSE,
          hwDeviceCtx |-> FALSE, ownHwDeviceCtx |-> FALSE]
    ELSE IF config.externalHwDeviceCtx
    THEN [found |-> TRUE, codecName |-> config.codec, usingHardware |-> TRUE,
          hwDeviceCtx |-> env.hwContextOk, ownHwDeviceCtx |-> FALSE]
    ELSE IF NameHas(config.codec, "videotoolbox")
    THEN [found |-> TRUE, codecName |-> config.codec, usingHardware |-> TRUE,
          hwDeviceCtx |-> FALSE, ownHwDeviceCtx |-> FALSE]
    ELSE [found |-> TRUE, codecName |-> config.codec, usingHardware |-> TRUE,
          hwDeviceCtx |-> env.hwContextOk, ownHwDeviceCtx |-> env.hwContextOk]

\* setupEncoder, "Set pixel format based on hardware acceleration": a
\* hardware encoder without device context falls back to software
UsesHardwareAfterPixelFormat(config, c) ==
    /\ c.usingHardware
    /\ \/ config.hwType = "videotoolbox"
       \/ config.hwType = "nvenc" /\ ~config.expectHardwareFrames
       \/ c.hwDeviceCtx

\* the encoder after construction
setupEncoder(config, env) ==
    LET h == SelectHardwareCodec(config, env)
        c == IF h.found THEN h ELSE SelectFallbackCodec(config, env)
        usingHardware == UsesHardwareAfterPixelFormat(config, c)
    IN [pc |-> "open",
        codecName |-> c.codecName,
        usingHardware |-> usingHardware,
        asyncMode |-> (usingHardware \/ NameHas(c.codecName, "nvenc")),
        hwDeviceCtx |-> c.hwDeviceCtx,
        ownHwDeviceCtx |-> c.ownHwDeviceCtx,
        maxBFramesZero |-> (NameHas(c.codecName, "videotoolbox") /\ usingHardware),
        noFile |-> config.noFile,
        finalized |-> FALSE,
        pts |-> 0,
        frameCount |-> 0,
        framesInFlight |-> 0,
        pending |-> << >>,
        emitted |-> 0,
        flushed |-> FALSE,
        submitted |-> << >>,
        muxed |-> << >>,
        trailers |-> 0,
        finalizeCalls |-> 0,
        discarded |-> 0,
        events |-> << >>,
        paths |-> {},
        everFailed |-> FALSE,
        last |-> [op |-> "new", ok |-> TRUE]]

(***************************************************************************)
(* The codec and its drains                                                *)
(*                                                                         *)
(* What the libraries answer is not decided by the program, so every       *)
(* operation below yields the set of its possible outcomes.                *)
(***************************************************************************)
\* sequences without repetition over a set
RECURSIVE Arrangements(_)
Arrangements(S) ==
    {<< >>} \cup UNION {{<<x>> \o rest : rest \in Arrangements(S \ {x})} : x \in S}

Range(s) == {s[i] : i \in DOMAIN s}

Prefixes(s) == {SubSeq(s, 1, k) : k \in 0..Len(s)}

\* the packets avcodec_receive_packet can hand out, in order, before it
\* reports EAGAIN, EOF or an error: in presentation order when B-frames are
\* off; otherwise in decode order, which starts with the first frame the
\* codec accepted and may then put a later frame before earlier ones
EmitChoices(e) ==
    IF e.maxBFramesZero THEN Prefixes(e.pending)
    ELSE {s \in Arrangements(Range(e.pending)) :
            (s # << >> /\ e.emitted = 0) => s[1] = e.pending[1]}

\* one run of a receive loop as the libraries make it go: the packets handed
\* out, whether the muxer refuses the last of them, and what ends the loop
Drains(e) ==
    {d \in [emit : EmitChoices(e), writeFail : BOOLEAN, end : {"again", "eof", "error"}] :
        /\ d.writeFail => d.emit # << >>
        /\ d.end = "eof" => (e.flushed /\ Len(d.emit) = Len(e.pending))}

Without(s, gone) == SelectSeq(s, LAMBDA x : x \notin gone)

\* the packets of a drain that reach the muxer
Written(d) == IF d.writeFail THEN SubSeq(d.emit, 1, Len(d.emit) - 1) ELSE d.emit

Max(a, b) == IF a > b THEN a ELSE b
Min(a, b) == IF a < b THEN a ELSE b

\* the codec has handed out the packets of a drain
Emitted(e, d) == [e EXCEPT !.pending = Without(@, Range(d.emit)),
                           !.emitted = @ + Len(d.emit)]

\* receivePacketsAsync: every packet written counts one frame and releases
\* one frame in flight; a refused packet ends the loop; EOF clears the count
receivePacketsAsync(e) ==
    {[e |-> [Emitted(e, d) EXCEPT
                !.muxed = @ \o Written(d),
                !.frameCount = @ + Len(Written(d)),
                !.framesInFlight = IF ~d.writeFail /\ d.end = "eof" THEN 0
                                   ELSE Max(0, @ - Len(Written(d)))],
      receivedAny |-> (Len(Written(d)) > 0)] : d \in Drains(e)}

\* the receive loop of encodeFrame and encodeHardwareFrame
SyncDrain(e) ==
    {[e |-> [Emitted(e, d) EXCEPT !.muxed = @ \o Written(d),
                                  !.frameCount = @ + Len(Written(d))],
      ok |-> (~d.writeFail /\ d.end # "error")] : d \in Drains(e)}

\* avcodec_send_frame: a flushed codec answers EOF whatever the frame
SendResults(e) == IF e.flushed THEN {"eof"} ELSE {"ok", "again", "error"}

\* variant: the drain waits until the queue is full
sendFrameAsyncDrainingWhenFull(e, p) ==
    LET sent == [e EXCEPT !.submitted = Append(@, p)]
        accepted == [sent EXCEPT !.pending = Append(@, p), !.framesInFlight = @ + 1]
    IN UNION {
        CASE ret = "error" -> {[e |-> sent, ok |-> FALSE, drained |-> FALSE]}
          [] ret \in {"eof", "again"} -> {[e |-> sent, ok |-> TRUE, drained |-> FALSE]}
          [] OTHER ->
                IF accepted.framesInFlight >= ASYNC_QUEUE_SIZE
                THEN {[e |-> r.e, ok |-> TRUE, drained |-> TRUE] :
                        r \in receivePacketsAsync(accepted)}
                ELSE {[e |-> accepted, ok |-> TRUE, drained |-> FALSE]}
        : ret \in SendResults(e)}

\* sendFrameAsync: the outcomes, each with the encoder afterwards, what the
\* function returns, and whether it called receivePacketsAsync
sendFrameAsync(e, p) ==
    LET sent == [e EXCEPT !.submitted = Append(@, p)]
        accepted == [sent EXCEPT !.pending = Append(@, p), !.framesInFlight = @ + 1]
    IN UNION {
        CASE ret = "error" -> {[e |-> sent, ok |-> FALSE, drained |-> FALSE]}
          [] ret \in {"eof", "again"} -> {[e |-> sent, ok |-> TRUE, drained |-> FALSE]}
          [] OTHER ->
                IF accepted.framesInFlight >= ASYNC_QUEUE_SIZE - 2
                THEN {[e |-> r.e, ok |-> TRUE, drained |-> TRUE] :
                        r \in receivePacketsAsync(accepted)}
                ELSE {[e |-> accepted, ok |-> TRUE, drained |-> FALSE]}
        : ret \in SendResults(e)}

\* encodeFrame and encodeHardwareFrame: asynchronous send, or send and drain
encodeFrame(e, p) ==
    IF e.asyncMode THEN sendFrameAsync(e, p)
    ELSE LET sent == [e EXCEPT !.submitted = Append(@, p)]
         IN UNION {
             CASE ret \in {"error", "eof"} -> {[e |-> sent, ok |-> FALSE]}
               [] ret = "ok" -> SyncDrain([sent EXCEPT !.pending = Append(@, p)])
               [] OTHER -> SyncDrain(sent)
             : ret \in SendResults(e)}

processEncodingQueue(e) ==
    IF e.asyncMode /\ e.framesInFlight > 0
    THEN {r.e : r \in receivePacketsAsync(e)}
    ELSE {e}

\* variant: a frame the codec refuses gives its pts back
StampAndEncodeReturningPts(e, path) ==
    UNION {{[e |-> IF r.ok THEN q ELSE [q EXCEPT !.pts = e.pts], ok |-> r.ok] :
                q \in processEncodingQueue(r.e)} :
            r \in encodeFrame([e EXCEPT !.pts = @ + 1, !.paths = @ \cup {path}], e.pts)}

\* "pts = pts++", encode, and in async mode a look at the queue
StampAndEncode(e, path) ==
    UNION {{[e |-> q, ok |-> r.ok] : q \in processEncodingQueue(r.e)} :
            r \in encodeFrame([e EXCEPT !.pts = @ + 1, !.paths = @ \cup {path}], e.pts)}

Failed(e) == {[e |-> e, ok |-> FALSE]}

\* a frame needing conversion may fail to convert, before a pts is taken
writeFrame(e, frame) ==
    IF frame.null \/ e.finalized THEN Failed(e)
    ELSE (IF frame.needsConversion THEN Failed(e) ELSE {}) \cup StampAndEncode(e, "software")

\* the upload of a software frame and the copy of a hardware frame may fail,
\* before a pts is taken
writeHardwareFrame(e, frame) ==
    IF frame.null \/ e.finalized THEN Failed(e)
    ELSE IF ~e.usingHardware THEN writeFrame(e, frame)
    ELSE Failed(e) \cup StampAndEncode(e, IF frame.hw THEN "passthrough" ELSE "upload")

(***************************************************************************)
(* finalize, the destructor and cleanup                                    *)
(***************************************************************************)
\* finalize in async mode, first loop: receive while frames are in flight,
\* until a receive brings nothing or the attempts run out
RECURSIVE DrainInFlight(_, _)
DrainInFlight(e, flushAttempts) ==
    IF e.framesInFlight > 0 /\ flushAttempts < FlushAttemptLimit
    THEN UNION {IF r.receivedAny THEN DrainInFlight(r.e, flushAttempts + 1) ELSE {r.e} :
                    r \in receivePacketsAsync(e)}
    ELSE {e}

\* finalize in async mode, second loop: after the flush signal every packet
\* received is counted, written or not, for at most maxIterations rounds
DrainFlushed(e) ==
    {LET taken == SubSeq(d.emit, 1, Min(Len(d.emit), FlushIterationLimit))
     IN [Emitted(e, [d EXCEPT !.emit = taken]) EXCEPT
            !.muxed = @ \o (IF d.writeFail /\ Len(taken) = Len(d.emit)
                            THEN SubSeq(taken, 1, Len(taken) - 1) ELSE taken),
            !.frameCount = @ + Len(taken)] : d \in Drains(e)}

\* flushEncoder: the flush signal, then packets to the muxer until EOF
flushEncoder(e) ==
    {[Emitted(e, d) EXCEPT !.muxed = @ \o Written(d)] : d \in Drains(e)}

Flush(e) ==
    IF e.asyncMode
    THEN UNION {DrainFlushed([q EXCEPT !.flushed = TRUE]) : q \in DrainInFlight(e, 0)}
    ELSE flushEncoder([e EXCEPT !.flushed = TRUE])

\* variant: finalize flushes and writes the trailer whatever finalized says
finalizeUnguarded(e) ==
    LET called == [e EXCEPT !.finalizeCalls = @ + 1]
    IN UNION {{[e |-> q, ok |-> FALSE],
               [e |-> [q EXCEPT !.finalized = TRUE, !.trailers = @ + 1], ok |-> TRUE]} :
                   q \in Flush(called)}

\* finalize: nothing when already finalized; otherwise flush and write the
\* trailer, and only a written trailer sets finalized
finalize(e) ==
    LET called == [e EXCEPT !.finalizeCalls = @ + 1]
    IN IF e.finalized THEN {[e |-> called, ok |-> TRUE]}
       ELSE UNION {{[e |-> q, ok |-> FALSE],
                    [e |-> [q EXCEPT !.finalized = TRUE, !.trailers = @ + 1], ok |-> TRUE]} :
                        q \in Flush(called)}

Event(e, name) == [e EXCEPT !.events = Append(@, name)]

\* variant: the codec is closed before the packet buffer is freed, whatever
\* the encoder
cleanupCloseFirst(e) ==
    LET closed == Event(Event(e, "closeCodec"), "freePacket")
        freed == Event(closed, "freeCodecContext")
        unreffed == IF e.hwDeviceCtx /\ e.ownHwDeviceCtx
                    THEN Event(freed, "unrefHwDeviceCtx") ELSE freed
        ioClosed == IF e.noFile THEN unreffed ELSE Event(unreffed, "closeIO")
    IN [Event(ioClosed, "freeFormatContext") EXCEPT !.pc = "destroyed"]

\* cleanup: the packet buffer, the codec (closed first when it is a hardware
\* codec), the device context when owned, the output and the format context
cleanup(e) ==
    LET packetFreed == Event(e, "freePacket")
        closed == IF e.usingHardware THEN Event(packetFreed, "closeCodec") ELSE packetFreed
        freed == Event(closed, "freeCodecContext")
        unreffed == IF e.hwDeviceCtx /\ e.ownHwDeviceCtx
                    THEN Event(freed, "unrefHwDeviceCtx") ELSE freed
        ioClosed == IF e.noFile THEN unreffed ELSE Event(unreffed, "closeIO")
    IN [Event(ioClosed, "freeFormatContext") EXCEPT !.pc = "destroyed"]

\* the destructor's safety drain: packets are received and dropped until the
\* codec has none, or the limit is reached
SafetyDrain(e) ==
    {[Event(e, "safetyDrain") EXCEPT
        !.pending = Without(@, Range(SubSeq(s, 1, Min(Len(s), SafetyDrainLimit)))),
        !.emitted = @ + Min(Len(s), SafetyDrainLimit),
        !.discarded = @ + Min(Len(s), SafetyDrainLimit),
        !.framesInFlight = 0] : s \in EmitChoices(e)}

\* ~FFmpegEncoder
Destructor(e) ==
    LET finalizedNow == IF e.finalized THEN {e}
                        ELSE {Event(r.e, "finalize") : r \in finalize(e)}
    IN UNION {{cleanup(d) : d \in IF q.asyncMode /\ q.usingHardware
                                  THEN SafetyDrain(q) ELSE {q}} :
                q \in finalizedNow}

(***************************************************************************)
(* Encoder specification: any calls on one encoder, then its destruction   *)
(***************************************************************************)
\* frames the encoder takes a pts for
EncMaxFrames == 3

EncoderConfigs ==
    [codec : {"libx264", "h264_nvenc"},
     useHardwareEncoder : BOOLEAN,
     hwType : HwTypes,
     externalHwDeviceCtx : BOOLEAN,
     expectHardwareFrames : BOOLEAN,
     noFile : BOOLEAN]

\* what the machine offers: the hardware codec, a device context
EncoderEnvs == [hwCodecFound : BOOLEAN, hwContextOk : BOOLEAN]

\* a missing frame, a frame in the encoder's format, one that has to be
\* converted, and a frame in GPU memory
Frames ==
    {[null |-> TRUE, hw |-> FALSE, needsConversion |-> FALSE],
     [null |-> FALSE, hw |-> FALSE, needsConversion |-> FALSE],
     [null |-> FALSE, hw |-> FALSE, needsConversion |-> TRUE],
     [null |-> FALSE, hw |-> TRUE, needsConversion |-> FALSE]}

Called(e, op, ok) ==
    [e EXCEPT !.last = [op |-> op, ok |-> ok], !.everFailed = @ \/ ~ok]

\* the frame object "pts = pts++" is assigned to.  writeFrame stamps
\* frameToEncode: the caller's frame, or convertedFrame after a conversion (a
\* frame in GPU memory is not in the encoder's software format).
\* writeHardwareFrame stamps hwFrame after an upload and encoderFrame, the
\* shallow reference, in the passthrough; without hardware it calls writeFrame.
StampedByWriteFrame(frame) ==
    IF frame.needsConversion \/ frame.hw THEN "convertedFrame" ELSE "frame"

StampedByWriteHardwareFrame(e, frame) ==
    IF ~e.usingHardware THEN StampedByWriteFrame(frame)
    ELSE IF frame.hw THEN "encoderFrame"
    ELSE "hwFrame"

\* the pts of the caller's frame after a call that left the encoder as after:
\* the pts the encoder took when the caller's frame was the one stamped, else
\* the pts the caller gave it
CallerPts == [written |-> FALSE, pts |-> 0]
CallerPtsAfter(e, after, stamped) ==
    IF stamped = "frame" /\ after.pts # e.pts
    THEN [written |-> TRUE, pts |-> e.pts] ELSE CallerPts

\* the record of a write call: the outcome and the caller's frame afterwards
CalledWithFrame(e, op, ok, framePts) ==
    [e EXCEPT !.last = [op |-> op, ok |-> ok, framePts |-> framePts],
              !.everFailed = @ \/ ~ok]

WriteFrame ==
    /\ enc.pc = "open"
    /\ enc.pts < EncMaxFrames
    /\ \E frame \in Frames : \E r \in writeFrame(enc, frame) :
          enc' = CalledWithFrame(r.e, "writeFrame", r.ok,
                    CallerPtsAfter(enc, r.e, StampedByWriteFrame(frame)))
    /\ UNCHANGED <<pool, hwctx, doc, edl, gen, dec, run>>

WriteHardwareFrame ==
    /\ enc.pc = "open"
    /\ enc.pts < EncMaxFrames
    /\ \E frame \in Frames : \E r \in writeHardwareFrame(enc, frame) :
          enc' = CalledWithFrame(r.e, "writeHardwareFrame", r.ok,
                    CallerPtsAfter(enc, r.e, StampedByWriteHardwareFrame(enc, frame)))
    /\ UNCHANGED <<pool, hwctx, doc, edl, gen, dec, run>>

Finalize ==
    /\ enc.pc = "open"
    /\ enc.finalizeCalls < 2
    /\ \E r \in finalize(enc) : enc' = Called(r.e, "finalize", r.ok)
    /\ UNCHANGED <<pool, hwctx, doc, edl, gen, dec, run>>

Destroy ==
    /\ enc.pc = "open"
    /\ \E d \in Destructor(enc) : enc' = Called(d, "destroy", TRUE)
    /\ UNCHANGED <<pool, hwctx, doc, edl, gen, dec, run>>

InitEnc ==
    /\ doc = NoDoc
    /\ edl = Unparsed
    /\ gen = GenIdle
    /\ dec = DecIdle
    /\ enc \in {setupEncoder(config, env) : config \in EncoderConfigs, env \in EncoderEnvs}
    /\ run = RunIdle
    /\ pool = PoolIdle
    /\ hwctx = HwIdle

NextEnc == WriteFrame \/ WriteHardwareFrame \/ Finalize \/ Destroy

SpecEnc == InitEnc /\ [][NextEnc]_vars

(***************************************************************************)
(* Properties of the encoder                                               *)
(***************************************************************************)
StrictlyIncreasing(s) == \A i \in 1..(Len(s) - 1) : s[i] < s[i + 1]

NoRepeats(s) == \A i, j \in DOMAIN s : i # j => s[i] # s[j]

\* the frames handed to the codec carry the pts 0, 1, 2, ... in call order
PtsInCallOrder == enc.submitted = [i \in 1..enc.pts |-> i - 1]

\* C9 (as stated): the pts of the frames submitted to the codec are
\* 0, 1, 2, ... in call order, and the packets reach the muxer in that order.
C9_MuxedInPtsOrder ==
    enc.pc # "idle" => (PtsInCallOrder /\ StrictlyIncreasing(enc.muxed))

\* C9 (amended): the pts of the frames submitted to the codec are 0, 1, 2, ...
\* in call order, on every path and after failed calls; every packet that
\* reaches the muxer carries the pts of one submitted frame, none twice, in
\* the order the codec hands the packets out, which is the pts order when
\* the encoder has switched B-frames off.
C9_PtsInCallOrder ==
    enc.pc # "idle" =>
        /\ PtsInCallOrder
        /\ NoRepeats(enc.muxed)
        /\ Range(enc.muxed) \subseteq Range(enc.submitted)
        /\ enc.maxBFramesZero => StrictlyIncreasing(enc.muxed)

\* three frames submitted on all three paths with a failed call among the
\* calls, and the codec has handed the packets out in decode order
C9_Witness ==
    /\ enc.pc = "open"
    /\ enc.pts = 3
    /\ enc.paths = {"software", "upload", "passthrough"}
    /\ enc.everFailed
    /\ enc.muxed = <<0, 2, 1>>

\* the teardown events of the destructor, from the encoder it is called on
TeardownOf(e, closeEvents) ==
    (IF e.finalized THEN << >> ELSE <<"finalize">>)
    \o (IF e.asyncMode /\ e.usingHardware THEN <<"safetyDrain">> ELSE << >>)
    \o closeEvents
    \o <<"freeCodecContext">>
    \o (IF e.hwDeviceCtx /\ e.ownHwDeviceCtx THEN <<"unrefHwDeviceCtx">> ELSE << >>)
    \o (IF e.noFile THEN << >> ELSE <<"closeIO">>)
    \o <<"freeFormatContext">>

Destroyed == enc.pc = "open" /\ enc'.pc = "destroyed"

MainMaxFrames == 2

Uris == {"a.mp4", "b.mp4"}

\* an instruction as the generator builds it; fade, pan, zoom and rotation
\* in thousandths
PlainInstruction(type, uri) ==
    [type |-> type, uri |-> uri, effects |-> 0, fade |-> 1000,
     panX |-> 0, panY |-> 0, zoomX |-> 1000, zoomY |-> 1000, rotation |-> 0,
     flip |-> FALSE, transition |-> "None"]

MainInstructions ==
    {PlainInstruction("DrawFrame", u) : u \in Uris}
    \cup {PlainInstruction("GenerateColor", ""), PlainInstruction("NoOp", "")}
    \cup {[PlainInstruction("DrawFrame", "a.mp4") EXCEPT !.effects = 1],
          [PlainInstruction("DrawFrame", "a.mp4") EXCEPT !.fade = 500],
          [PlainInstruction("DrawFrame", "a.mp4") EXCEPT !.panX = 1],
          [PlainInstruction("DrawFrame", "a.mp4") EXCEPT !.panY = -250],
          [PlainInstruction("DrawFrame", "a.mp4") EXCEPT !.zoomX = 2000],
          [PlainInstruction("DrawFrame", "a.mp4") EXCEPT !.zoomY = 500],
          [PlainInstruction("DrawFrame", "a.mp4") EXCEPT !.rotation = 90000],
          [PlainInstruction("DrawFrame", "a.mp4") EXCEPT !.flip = TRUE],
          [PlainInstruction("DrawFrame", "a.mp4") EXCEPT !.transition = "Dissolve"]}

Abs(x) == IF x < 0 THEN -x ELSE x

requiresCPUProcessing(instruction) ==
    \/ instruction.effects > 0
    \/ instruction.fade < 1000
    \/ Abs(instruction.panX) > 1
    \/ Abs(instruction.panY) > 1
    \/ Abs(instruction.zoomX - 1000) > 1
    \/ Abs(instruction.zoomY - 1000) > 1
    \/ Abs(instruction.rotation) > 1
    \/ instruction.flip
    \/ instruction.transition # "None"
    \/ instruction.type # "DrawFrame"

\* the per-frame decision of the loop
useGPUPassthrough(r, instruction) ==
    /\ instruction.type = "DrawFrame"
    /\ instruction.uri \in DOMAIN r.decoders
    /\ r.decoders[instruction.uri]
    /\ r.opts.hwEncode
    /\ ~requiresCPUProcessing(instruction)

HardwareFrame == [null |-> FALSE, hw |-> TRUE, needsConversion |-> FALSE]
OutputFrame == [null |-> FALSE, hw |-> FALSE, needsConversion |-> FALSE]

NoStep == [instruction |-> PlainInstruction("NoOp", ""), path |-> "none",
           composited |-> FALSE, wrote |-> FALSE]

\* the state of main when the frame loop starts
StartRun(opts, decoders, totalFrames) ==
    [pc |-> "loop", opts |-> opts, decoders |-> decoders, totalFrames |-> totalFrames,
     position |-> 0, frameCount |-> 0, last |-> NoStep,
     noFrameAt |-> -1, submittedAtStop |-> 0, writeFailed |-> FALSE, exitStatus |-> -1]

Step(r, instruction, path, composited, wrote) ==
    [r EXCEPT !.last = [instruction |-> instruction, path |-> path,
                        composited |-> composited, wrote |-> wrote],
              !.position = @ + 1]

\* "Failed to get frame ..., stopping": break
StoppedAt(r, instruction, path) ==
    [Step(r, instruction, path, FALSE, FALSE) EXCEPT
        !.pc = "stopped", !.position = r.position, !.noFrameAt = r.position,
        !.submittedAtStop = Len(enc.submitted)]

\* one iteration of the frame loop on the passthrough path
PassthroughFrame(instruction) ==
    /\ useGPUPassthrough(run, instruction)
    /\ \/ /\ run' = StoppedAt(run, instruction, "gpu")
          /\ enc' = enc
       \/ \E w \in writeHardwareFrame(enc, HardwareFrame) :
             /\ enc' = Called(w.e, "writeHardwareFrame", w.ok)
             /\ run' = [Step(run, instruction, "gpu", FALSE, TRUE) EXCEPT
                           !.frameCount = @ + 1,
                           !.writeFailed = @ \/ ~w.ok]

\* one iteration of the frame loop on the CPU path; the compositor may throw
\* when it cannot allocate a frame
CPUFrame(instruction) ==
    /\ ~useGPUPassthrough(run, instruction)
    /\ \/ /\ instruction.type = "DrawFrame"
          /\ instruction.uri \in DOMAIN run.decoders
          /\ run' = StoppedAt(run, instruction, "cpu")
          /\ enc' = enc
       \/ /\ run' = [Step(run, instruction, "cpu", TRUE, FALSE) EXCEPT !.pc = "caught"]
          /\ enc' = enc
       \/ \E w \in writeFrame(enc, OutputFrame) :
             /\ enc' = Called(w.e, "writeFrame", w.ok)
             /\ run' = [Step(run, instruction, "cpu", TRUE, TRUE) EXCEPT
                           !.frameCount = @ + 1,
                           !.writeFailed = @ \/ ~w.ok]

ProcessFrame ==
    /\ run.pc = "loop"
    /\ run.position < run.totalFrames
    /\ \E instruction \in MainInstructions :
          PassthroughFrame(instruction) \/ CPUFrame(instruction)
    /\ UNCHANGED <<pool, hwctx, doc, edl, gen, dec>>

\* after the loop: encoder.finalize(), return 0, and the encoder goes out of
\* scope
FinishRun ==
    /\ \/ run.pc = "stopped"
       \/ run.pc = "loop" /\ run.position = run.totalFrames
    /\ \E f \in finalize(enc) : \E d \in Destructor(f.e) :
          enc' = Called(d, "destroy", TRUE)
    /\ run' = [run EXCEPT !.pc = "exited", !.exitStatus = 0]
    /\ UNCHANGED <<pool, hwctx, doc, edl, gen, dec>>

\* catch: the encoder is destroyed while the exception unwinds, return 1
FailRun ==
    /\ run.pc = "caught"
    /\ \E d \in Destructor(enc) : enc' = Called(d, "destroy", TRUE)
    /\ run' = [run EXCEPT !.pc = "exited", !.exitStatus = 1]
    /\ UNCHANGED <<pool, hwctx, doc, edl, gen, dec>>

MainOptions == [hwDecode : BOOLEAN, hwEncode : BOOLEAN,
                codec : {"libx264", "h264_nvenc"}, hwType : HwTypes]

\* the encoder configuration main builds from the options
EncoderConfig(opts, sharedHwContext) ==
    [codec |-> opts.codec,
     useHardwareEncoder |-> opts.hwEncode,
     hwType |-> opts.hwType,
     externalHwDeviceCtx |-> sharedHwContext,
     expectHardwareFrames |-> (opts.hwDecode /\ opts.hwEncode),
     noFile |-> FALSE]

InitMain ==
    /\ doc = NoDoc
    /\ edl = Unparsed
    /\ gen = GenIdle
    /\ dec = DecIdle
    /\ \E opts \in MainOptions, shared \in BOOLEAN, env \in EncoderEnvs,
          decoders \in [Uris -> BOOLEAN], n \in 1..MainMaxFrames :
          /\ shared => (opts.hwDecode \/ opts.hwEncode)
          /\ \A u \in Uris : decoders[u] => opts.hwDecode
          /\ enc = setupEncoder(EncoderConfig(opts, shared), env)
          /\ run = StartRun([hwDecode |-> opts.hwDecode, hwEncode |-> opts.hwEncode],
                            decoders, n)
    /\ pool = PoolIdle
    /\ hwctx = HwIdle

NextMain == ProcessFrame \/ FinishRun \/ FailRun

SpecMain == InitMain /\ [][NextMain]_vars

(***************************************************************************)
(* Properties of the run                                                   *)
(***************************************************************************)
\* C1: a frame takes the passthrough path (hardware frame from the decoder
\* straight to writeHardwareFrame, no compositor) exactly when its
\* instruction is a DrawFrame that needs no CPU processing, the decoder of
\* its uri uses hardware and the encoder uses hardware; every other frame
\* takes the CPU path.
C1_PassthroughRouting ==
    (run.pc # "idle" /\ run.last.path # "none") =>
        LET i == run.last.instruction
        IN /\ run.last.path \in {"gpu", "cpu"}
           /\ run.last.path = "gpu" <=>
                 /\ i.type = "DrawFrame"
                 /\ ~requiresCPUProcessing(i)
                 /\ run.decoders[i.uri]
                 /\ enc.usingHardware
           /\ run.last.path = "gpu" => ~run.last.composited

\* C5: when the decoder has no frame for the instruction at position k the
\* run stops there: nothing is written for k or later, what was written
\* before stays, finalize is called exactly once, and the exit status is 0.
C5_StopOnNoFrame ==
    (run.pc = "exited" /\ run.noFrameAt >= 0) =>
        /\ run.position = run.noFrameAt
        /\ Len(enc.submitted) = run.submittedAtStop
        /\ enc.finalizeCalls = 1
        /\ run.exitStatus = 0

\* C6: a run in which writeFrame or writeHardwareFrame reported a failure
\* ends with a non-zero exit status, after finalize has been called.
C6_WriteFailureFailsRun ==
    (run.pc = "exited" /\ run.writeFailed) =>
        /\ run.exitStatus # 0
        /\ enc.finalizeCalls >= 1

\* ---------------------------------------------------------------------------
\* FrameBufferPool (utils/FrameBuffer.cpp).  Frames are numbered 1, 2, ... in
\* the order createFrame allocates them; 0 is the null pointer.  Each thread
\* runs getFrame and the deleter of its handles (returnFrame) statement by
\* statement, the critical sections under poolMutex.
\* ---------------------------------------------------------------------------
PoolThreads == 2
MaxPoolSize == 2
PoolMaxFrames == 3
PreallocLimit == 5

Threads == 1..PoolThreads

PoolThread == [pc |-> "idle", frame |-> 0, handles |-> {}]

\* FrameBufferPool(width, height, format, poolSize): min(poolSize / 2, 5)
\* frames are allocated up front.
FrameBufferPool(poolSize) ==
    LET n == Min(poolSize \div 2, PreallocLimit)
    IN  [pc |-> "open", poolSize |-> poolSize,
         availableFrames |-> [i \in 1..n |-> i],
         totalAllocated |-> n, poolMutex |-> 0,
         nextFrame |-> n, freed |-> {},
         thread |-> [t \in Threads |-> PoolThread]]

\* std::lock_guard<std::mutex> lock(poolMutex) can be taken.
MutexIgnored(p) == TRUE

MutexFree(p) == p.poolMutex = 0

\* std::queue::pop
Pop(q) == IF q = <<>> THEN q ELSE Tail(q)

\* getFrame: lock_guard.
GetFrameLock(t) ==
    /\ pool.pc = "open" /\ pool.thread[t].pc = "idle"
    /\ MutexFree(pool)
    /\ pool' = [pool EXCEPT !.poolMutex = t, !.thread[t].pc = "getFrame"]
    /\ UNCHANGED <<doc, edl, gen, dec, enc, run, hwctx>>

\* getFrame: availableFrames.empty(), availableFrames.front().
GetFrameFront(t) ==
    /\ pool.pc = "open" /\ pool.thread[t].pc = "getFrame"
    /\ pool' = IF pool.availableFrames # <<>>
               THEN [pool EXCEPT !.thread[t].frame = Head(pool.availableFrames),
                                 !.thread[t].pc = "pop"]
               ELSE [pool EXCEPT !.thread[t].pc = "create"]
    /\ UNCHANGED <<doc, edl, gen, dec, enc, run, hwctx>>

\* getFrame: availableFrames.pop(), av_frame_make_writable.
GetFramePop(t) ==
    /\ pool.pc = "open" /\ pool.thread[t].pc = "pop"
    /\ pool' = [pool EXCEPT !.availableFrames = Pop(pool.availableFrames),
                            !.thread[t].pc = "return"]
    /\ UNCHANGED <<doc, edl, gen, dec, enc, run, hwctx>>

\* createFrame: a new frame, counted in totalAllocated, or an exception that
\* leaves getFrame (and releases the lock) when the allocation fails.
createFrame(p, t, ok) ==
    IF ok
    THEN [p EXCEPT !.nextFrame = p.nextFrame + 1,
                   !.totalAllocated = p.totalAllocated + 1,
                   !.thread[t].frame = p.nextFrame + 1,
                   !.thread[t].pc = "return"]
    ELSE [p EXCEPT !.poolMutex = 0, !.thread[t].pc = "idle"]

GetFrameCreate(t) ==
    /\ pool.pc = "open" /\ pool.thread[t].pc = "create"
    /\ \E ok \in BOOLEAN :
          /\ ok => pool.nextFrame < PoolMaxFrames
          /\ pool' = createFrame(pool, t, ok)
    /\ UNCHANGED <<doc, edl, gen, dec, enc, run, hwctx>>

\* getFrame: the frame leaves in a shared_ptr whose deleter is the pool's.
GetFrameReturn(t) ==
    /\ pool.pc = "open" /\ pool.thread[t].pc = "return"
    /\ pool' = [pool EXCEPT
                  !.thread[t].handles = @ \cup {pool.thread[t].frame},
                  !.thread[t].frame = 0,
                  !.thread[t].pc = "idle",
                  !.poolMutex = 0]
    /\ UNCHANGED <<doc, edl, gen, dec, enc, run, hwctx>>

\* The last shared_ptr of a frame goes away: FramePoolDeleter::operator().
DropHandle(t) ==
    /\ pool.pc = "open" /\ pool.thread[t].pc = "idle"
    /\ \E f \in pool.thread[t].handles :
          pool' = [pool EXCEPT !.thread[t].handles = @ \ {f},
                               !.thread[t].frame = f,
                               !.thread[t].pc = "returnFrame"]
    /\ UNCHANGED <<doc, edl, gen, dec, enc, run, hwctx>>

\* returnFrame: lock_guard.
ReturnFrameLock(t) ==
    /\ pool.pc = "open" /\ pool.thread[t].pc = "returnFrame"
    /\ MutexFree(pool)
    /\ pool' = [pool EXCEPT !.poolMutex = t, !.thread[t].pc = "returning"]
    /\ UNCHANGED <<doc, edl, gen, dec, enc, run, hwctx>>

\* returnFrame under the lock: back into the queue, or freed when it is full.
returnFrame(p, t) ==
    LET f == p.thread[t].frame
        q == IF Len(p.availableFrames) < p.poolSize
             THEN [p EXCEPT !.availableFrames = Append(@, f)]
             ELSE [p EXCEPT !.freed = @ \cup {f},
                            !.totalAllocated = p.totalAllocated - 1]
    IN  [q EXCEPT !.thread[t].frame = 0, !.thread[t].pc = "idle",
                  !.poolMutex = 0]

ReturnFrame(t) ==
    /\ pool.pc = "open" /\ pool.thread[t].pc = "returning"
    /\ pool' = returnFrame(pool, t)
    /\ UNCHANGED <<doc, edl, gen, dec, enc, run, hwctx>>

InitPool ==
    /\ doc = NoDoc
    /\ edl = Unparsed
    /\ gen = GenIdle
    /\ dec = DecIdle
    /\ enc = EncIdle
    /\ run = RunIdle
    /\ hwctx = HwIdle
    /\ \E poolSize \in 0..MaxPoolSize : pool = FrameBufferPool(poolSize)

NextPool ==
    \E t \in Threads :
        \/ GetFrameLock(t)
        \/ GetFrameFront(t)
        \/ GetFramePop(t)
        \/ GetFrameCreate(t)
        \/ GetFrameReturn(t)
        \/ DropHandle(t)
        \/ ReturnFrameLock(t)
        \/ ReturnFrame(t)

SpecPool == InitPool /\ [][NextPool]_vars

\* The frames thread t's consumers own: through a handle, on the way out of
\* getFrame, or on the way into returnFrame after the handle went away.
HeldBy(t) ==
    pool.thread[t].handles \cup
        (IF pool.thread[t].pc \in {"return", "returnFrame", "returning"}
         THEN {pool.thread[t].frame} ELSE {})

Queued == {pool.availableFrames[i] : i \in 1..Len(pool.availableFrames)}

Held == UNION {HeldBy(t) : t \in Threads}

\* C11: whatever getFrame calls and handle drops the threads have interleaved,
\* every frame the pool created is in exactly one place: once in the available
\* queue, or with exactly one consumer, or freed; and totalAllocated counts
\* exactly the queued and the held frames.
C11_PoolAccounting ==
    pool.pc = "open" =>
        /\ \A f \in 1..pool.nextFrame :
              /\ Cardinality({i \in 1..Len(pool.availableFrames) :
                                 pool.availableFrames[i] = f})
                 + Cardinality({t \in Threads : f \in pool.thread[t].handles})
                 + Cardinality({t \in Threads :
                                 /\ pool.thread[t].frame = f
                                 /\ pool.thread[t].pc \in
                                       {"return", "returnFrame", "returning"}})
                 + (IF f \in pool.freed THEN 1 ELSE 0) = 1
        /\ pool.totalAllocated = Cardinality(Queued) + Cardinality(Held)

\* One frame waits in the queue, one has been freed because the queue was
\* full, and one is held by a thread while another thread is inside getFrame.
C11_Witness ==
    /\ pool.pc = "open"
    /\ pool.freed # {}
    /\ pool.availableFrames # <<>>
    /\ \E t, u \in Threads :
          /\ pool.thread[t].handles # {}
          /\ pool.thread[u].pc = "getFrame"

(***************************************************************************)
(* Documents that carry keys, types and values the parser has to judge     *)
(***************************************************************************)
\* the object r with the keys of s added or replaced
Merge(r, s) == [k \in DOMAIN r \cup DOMAIN s |-> IF k \in DOMAIN s THEN s[k] ELSE r[k]]

\* the object r without a key
DropKey(r, key) == [k \in DOMAIN r \ {key} |-> r[k]]

BaseClip == [in |-> JReal(0), out |-> JReal(2), track |-> VideoTrack1,
             source |-> UriSource("a.mp4", 0, 2)]

ChannelMaps ==
    {[k \in {key} |-> value] :
        key \in {"1", "0", "129", "1x", "left", "9999999999"},
        value \in {JInt(1), JReal(2), JStr("1")}}
    \cup {[k \in {"1", "left"} |-> JInt(1)], [k \in {"0", "left"} |-> JInt(1)]}

\* keys added to, or replaced in, the base clip
ClipChanges ==
    {[k \in {} |-> JNull],
     [foo |-> JInt(1)],
     [font |-> JStr("x")],
     [in |-> JStr("0")],
     [in |-> JReal(-1)],
     [in |-> JReal(2)],
     [track |-> JObj([type |-> JStr("video"), number |-> JReal(6)])],
     [track |-> JObj([type |-> JStr("video"), number |-> JInt(1), subtype |-> JInt(3)])],
     [track |-> JObj([type |-> JStr("film"), number |-> JInt(1)])],
     [topFade |-> JStr("1")],
     [topFade |-> JReal(1), tailFade |-> JInt(1)],
     [sync |-> JStr("a")],
     [motion |-> JObj([bezier |-> JArr(<< >>)])],
     [transition |-> JObj([type |-> JInt(1)])],
     [source |-> JObj([location |-> JStr("x"), in |-> JReal(0), out |-> JReal(2)])],
     [source |-> JObj([generate |-> JObj([type |-> JStr("colour")]), in |-> JReal(0),
                       out |-> JReal(2), width |-> JInt(16), height |-> JInt(16)])],
     [source |-> JObj([uri |-> JInt(7), in |-> JReal(0), out |-> JReal(2)])],
     [source |-> JObj([uri |-> JStr("a.mp4"), in |-> JReal(0), out |-> JReal(2),
                       fps |-> JStr("25")])],
     [effects |-> JObj([type |-> JStr("brightness")])],
     [effects |-> JArr(<<JInt(1)>>)],
     [effects |-> JArr(<<JObj([type |-> JStr("brightness"), strength |-> JStr("2")])>>)],
     [effects |-> JArr(<<JObj([type |-> JStr("brightness"), strength |-> JReal(6)])>>)]}
    \cup {[channelMap |-> JObj(m)] : m \in ChannelMaps}

\* the clip objects: the base clip changed, or with a required key missing
KeyClips ==
    {JObj(Merge(BaseClip, change)) : change \in ClipChanges}
    \cup {JObj(DropKey(BaseClip, key)) : key \in DOMAIN BaseClip}
    \cup {JObj(Merge(DropKey(BaseClip, "source"),
                     [sources |-> JArr(<<UriSource("a.mp4", 0, 2), UriSource("b.mp4", 0, 2)>>)])),
          JObj(Merge(BaseClip, [sources |-> JArr(<<UriSource("b.mp4", 0, 2)>>)])),
          JInt(5)}

KeyFps == {JInt(30), JInt(0), JStr("30"), JReal(10), JBool(TRUE), JNull}

KeyDocs ==
    {JObj(Merge([fps |-> fps, clips |-> JArr(<<clip>>)], extra)) :
        fps \in KeyFps, clip \in KeyClips,
        extra \in {[k \in {} |-> JNull], [title |-> JStr("x")]}}

InitKeys ==
    /\ doc \in KeyDocs
    /\ edl = Unparsed
    /\ gen = GenIdle
    /\ dec = DecIdle
    /\ enc = EncIdle
    /\ run = RunIdle
    /\ pool = PoolIdle
    /\ hwctx = HwIdle

NextKeys == ParseJSON

SpecKeys == InitKeys /\ [][NextKeys]_vars

\* the keys parseJSON and parseClip support
SupportedEdlKeys == {"fps", "width", "height", "clips"}
SupportedClipKeys ==
    {"in", "out", "track", "source", "sources", "topFade", "tailFade", "topFadeYUV",
     "tailFadeYUV", "motion", "transition", "sync", "channelMap", "textFormat", "effects"}

\* the clip objects of the document that have a key outside the supported set
ClipsWithUnknownKeys ==
    {i \in 1..Len(doc.v.clips.v) : Keys(doc.v.clips.v[i]) \ SupportedClipKeys # {}}

\* C15: a document with a top-level key other than fps, width, height, clips,
\* or with a clip object that has a key outside the supported clip keys, is
\* rejected with InvalidEdl.
C15_UnknownKeysRejected ==
    (edl.status # "none" /\ (Keys(doc) \ SupportedEdlKeys # {} \/ ClipsWithUnknownKeys # {}))
        => edl.status = "InvalidEdl"

\* C16: a document parseJSON does not accept is reported as InvalidEdl and as
\* no other kind of error, and no EDL comes back with the error.
C16_SingleTypedError ==
    /\ edl.status \in {"none", "ok", "InvalidEdl"}
    /\ edl.status # "ok" => edl.edl = NoEdl

(***************************************************************************)
(* Effects-track renaming: documents whose clips lie on video track 1 and  *)
(* on the effects tracks of the video tracks 1, 2 and 10, in every order   *)
(***************************************************************************)
FxMaxClips == 3
FxMaxTick == 2

EffectsTrack(n) ==
    JObj([type |-> JStr("video"), number |-> JInt(n), subtype |-> JStr("effects")])

FxTrackNumbers == {1, 2, 10}

FxClipChoices ==
    {ClipJson(ab[1], ab[2], VideoTrack1, UriSource("a.mp4", 0, ab[2] - ab[1])) :
        ab \in Intervals(FxMaxTick)}
    \cup {ClipJson(ab[1], ab[2], EffectsTrack(n), EffectJson(0, ab[2] - ab[1])) :
        ab \in Intervals(FxMaxTick), n \in FxTrackNumbers}

FxDocs == {EdlJson(30, cs) : cs \in SeqsUpTo(FxClipChoices, FxMaxClips)}

InitFx ==
    /\ doc \in FxDocs
    /\ edl = Unparsed
    /\ gen = GenIdle
    /\ dec = DecIdle
    /\ enc = EncIdle
    /\ run = RunIdle
    /\ pool = PoolIdle
    /\ hwctx = HwIdle

NextFx == ParseJSON

SpecFx == InitFx /\ [][NextFx]_vars

\* the effects tracks of the parsed clips, as track identities
EffectsTracksOf(clips) ==
    {clips[i].track : i \in {j \in 1..Len(clips) : clips[j].track.subtype = "effects"}}

\* the key getTrackKey gives an effects track before the renaming
EffectsKeyOf(track) == "_effects_" \o IntStr(track.number) \o "_" \o IntStr(track.subnumber)

\* the index of the first clip of a track in the document
FirstIndexOf(clips, track) ==
    CHOOSE i \in 1..Len(clips) :
        /\ clips[i].track = track
        /\ \A j \in 1..(i - 1) : clips[j].track # track

\* the number of effects tracks met in the document before the given one
DocumentOrderNumber(clips, track) ==
    Cardinality({t \in EffectsTracksOf(clips) :
                    FirstIndexOf(clips, t) < FirstIndexOf(clips, track)})

\* the number of effects tracks whose key is smaller as a string
KeyOrderNumber(clips, track) ==
    Cardinality({t \in EffectsTracksOf(clips) :
                    CodesLess(EffectsKeyCodes(t), EffectsKeyCodes(track))})

\* the clips of a track that came from the document, in their order
RECURSIVE RealClips(_)
RealClips(track) ==
    IF Len(track) = 0 THEN << >>
    ELSE IF Head(track).isNullClip THEN RealClips(Tail(track))
    ELSE <<Head(track)>> \o RealClips(Tail(track))

RECURSIVE ClipsOfTrack(_, _)
ClipsOfTrack(clips, track) ==
    IF Len(clips) = 0 THEN << >>
    ELSE IF Head(clips).track = track THEN <<Head(clips)>> \o ClipsOfTrack(Tail(clips), track)
    ELSE ClipsOfTrack(Tail(clips), track)

\* an effects track is found under fx_n with its clips and its parent
RenamedTo(e, track, n) ==
    LET fxKey == "fx_" \o IntStr(n)
    IN /\ fxKey \in DOMAIN e.tracks
       /\ RealClips(e.tracks[fxKey]) = ClipsOfTrack(e.clips, track)
       /\ fxKey \in DOMAIN e.fxAppliesTo
       /\ e.fxAppliesTo[fxKey] = "video_" \o IntStr(track.number)

\* the keys of the tracks are those of the other tracks and fx_0 .. fx_(m-1)
OnlyFxKeys(e) ==
    LET eff == EffectsTracksOf(e.clips)
    IN /\ \A t \in eff : EffectsKeyOf(t) \notin DOMAIN e.tracks
       /\ {k \in DOMAIN e.tracks : k \notin {"video_1"}} =
              {"fx_" \o IntStr(n) : n \in 0..(Cardinality(eff) - 1)}
       /\ DOMAIN e.fxAppliesTo = {"fx_" \o IntStr(n) : n \in 0..(Cardinality(eff) - 1)}

\* C17 as stated: after normalization the effects tracks are keyed fx_0,
\* fx_1, ... with N in the order in which they are first met in the
\* document, each fx_N holds the clips of the track it renames and
\* fxAppliesTo[fx_N] is the key of the parent video track
C17_DocumentOrder ==
    edl.status = "ok" =>
        /\ OnlyFxKeys(edl.edl)
        /\ \A t \in EffectsTracksOf(edl.edl.clips) :
              RenamedTo(edl.edl, t, DocumentOrderNumber(edl.edl.clips, t))

\* C17 amended: after normalization no key of edl.tracks has the effects
\* pattern; the effects tracks are keyed fx_0, fx_1, ... with N in the
\* ascending string order of their keys before the renaming, each fx_N
\* holds the clips of the track it renames and fxAppliesTo[fx_N] is the
\* key of the parent video track
C17_FxRenaming ==
    edl.status = "ok" =>
        /\ OnlyFxKeys(edl.edl)
        /\ \A t \in EffectsTracksOf(edl.edl.clips) :
              RenamedTo(edl.edl, t, KeyOrderNumber(edl.edl.clips, t))

\* an accepted document that meets the effects track of video track 2
\* before the one of video track 10, which is renamed to fx_0
C17_Witness ==
    /\ edl.status = "ok"
    /\ Len(edl.edl.clips) >= 2
    /\ edl.edl.clips[1].track.subtype = "effects" /\ edl.edl.clips[1].track.number = 2
    /\ edl.edl.clips[2].track.subtype = "effects" /\ edl.edl.clips[2].track.number = 10
    /\ "fx_1" \in DOMAIN edl.edl.tracks
    /\ RealClips(edl.edl.tracks["fx_0"])[1].track.number = 10

(***************************************************************************)
(* Fades: documents with one clip on video track 1 that carries a top fade *)
(* and a tail fade, walked by the range-for loop of the generator          *)
(***************************************************************************)
FadeMaxTick == 4       \* largest in/out point of a fade document, in ticks
FadeMaxFade == 5       \* largest topFade / tailFade, in ticks

FadeFps == {4, 30}

FadeClipChoices ==
    {JObj(Merge(ClipJson(ab[1], ab[2], VideoTrack1, UriSource("a.mp4", 0, ab[2] - ab[1])).v,
                [topFade |-> JReal(top), tailFade |-> JReal(tail)])) :
        ab \in Intervals(FadeMaxTick), top \in 0..FadeMaxFade, tail \in 0..FadeMaxFade}

FadeDocs == {EdlJson(f, <<c>>) : f \in FadeFps, c \in FadeClipChoices}

InitFade ==
    /\ doc \in FadeDocs
    /\ edl = Unparsed
    /\ gen = [GenIdle EXCEPT !.pc = "start"]
    /\ dec = DecIdle
    /\ enc = EncIdle
    /\ run = RunIdle
    /\ pool = PoolIdle
    /\ hwctx = HwIdle

NextFade == ParseJSON \/ NewGenerator \/ ForBegin \/ ForStep \/ ForEnd

SpecFade == InitFade /\ [][NextFade]_vars

\* the clip of a fade document, as parsed
FadeClip == edl.edl.clips[1]

\* the frame belongs to the clip: its instruction is made from the clip
FrameInClip(n) == ActiveAt(FadeClip, frameToTime(edl.edl, n))

\* the frame time is at most / at least a document time given in ticks
FrameTimeLeq(n, ticks) == ~BigLess(DblFromTicks(ticks), frameToTime(edl.edl, n))
FrameTimeGeq(n, ticks) == ticks <= 0 \/ BigGeq(frameToTime(edl.edl, n), DblFromTicks(ticks))

\* the two ramps of the clip do not overlap
RampsApart == FadeClip.topFade + FadeClip.tailFade <= FadeClip.out - FadeClip.in

\* a fade value lies in [0, 1]
FadeInUnit(f) == f.m >= 0 /\ FloatLeq(f, FloatOne)

\* two successive yields of the loop, both frames of the clip
SuccessiveClipFrames ==
    /\ gen.pc = "loop" /\ gen'.pc = "loop"
    /\ gen.yieldCount > 0
    /\ gen'.yieldCount = gen.yieldCount + 1
    /\ FrameInClip(gen.lastFrame)
    /\ FrameInClip(gen'.lastFrame)

FadeStepMonotone ==
    /\ FrameTimeLeq(gen'.lastFrame, FadeClip.in + FadeClip.topFade)
          => FloatLeq(gen.last.fade, gen'.last.fade)
    /\ FrameTimeGeq(gen.lastFrame, FadeClip.out - FadeClip.tailFade)
          => FloatLeq(gen'.last.fade, gen.last.fade)
    /\ FadeInUnit(gen.last.fade) /\ FadeInUnit(gen'.last.fade)

FrameAt(n, ticks) == n * TimeDen = ticks * edl.edl.fps

\* an instruction has been yielded for a frame of the clip's document
Yielded == gen.pc \in {"loop", "done"} /\ gen.yieldCount > 0

\* the frame at the end of the top ramp, inside the clip
AtTopEnd ==
    /\ FadeClip.topFade > 0
    /\ FadeClip.in + FadeClip.topFade < FadeClip.out
    /\ FrameAt(gen.lastFrame, FadeClip.in + FadeClip.topFade)

\* the frame at the start of the tail ramp, inside the clip
AtTailStart ==
    /\ FadeClip.tailFade > 0
    /\ FadeClip.out - FadeClip.tailFade >= FadeClip.in
    /\ FrameAt(gen.lastFrame, FadeClip.out - FadeClip.tailFade)

AtClipIn == FadeClip.topFade > 0 /\ FrameAt(gen.lastFrame, FadeClip.in)

\* C13 as stated: with topFade > 0 the instruction of the frame at clip.in
\* has fade >= 0 and the one of the frame at clip.in + topFade, when inside
\* the clip, has fade exactly 1; with tailFade > 0 the instruction of the
\* frame at clip.out - tailFade has fade exactly 1
C13_RampEndsAlways ==
    Yielded =>
        /\ AtClipIn => FloatLeq(FloatZero, gen.last.fade)
        /\ AtTopEnd => gen.last.fade = FloatOne
        /\ AtTailStart => gen.last.fade = FloatOne

\* C13 amended: the same for the clips whose ramps do not overlap
\* (topFade + tailFade is at most the duration); when they overlap the
\* fade at the end of one ramp is the value of the other ramp
C13_RampEnds ==
    Yielded =>
        /\ AtClipIn => FloatLeq(FloatZero, gen.last.fade)
        /\ (RampsApart /\ AtTopEnd) => gen.last.fade = FloatOne
        /\ (RampsApart /\ AtTailStart) => gen.last.fade = FloatOne

\* at 30 frames a second, the frame at the start of the tail ramp of a clip
\* with both ramps, where the top ramp ended earlier
C13_Witness ==
    /\ Yielded
    /\ edl.edl.fps = 30
    /\ RampsApart
    /\ FadeClip.topFade > 0
    /\ AtTailStart
    /\ FadeClip.in + FadeClip.topFade < FadeClip.out - FadeClip.tailFade
    /\ gen.last.fade = FloatOne

(***************************************************************************)
(* Effects clips: documents with a main clip on video track 1 or 2, with   *)
(* or without an inline effect, and effects clips on the effects tracks of *)
(* these video tracks; one frame per tick                                  *)
(***************************************************************************)
EffMaxTick == 2        \* largest in/out point of an effects document, in ticks
EffMaxClips == 2       \* effects clips per document

EffTrackNumbers == {1, 2}

VideoTrack(n) == JObj([type |-> JStr("video"), number |-> JInt(n)])

EffectsSubTrack(n, sub) ==
    JObj([type |-> JStr("video"), number |-> JInt(n), subtype |-> JStr("effects"),
          subnumber |-> JInt(sub)])

\* brightness 1.5 on the first effects track of a video track, contrast 2.0
\* on the second
EffectSourceJson(sub, in, out) ==
    JObj([type |-> JStr(IF sub = 1 THEN "brightness" ELSE "contrast"),
          in |-> JReal(in), out |-> JReal(out),
          value |-> JReal(IF sub = 1 THEN 6 ELSE 8)])

InlineEffectsJson == JArr(<<JObj([type |-> JStr("saturation"), strength |-> JReal(3)])>>)

MainClipChoices ==
    {JObj(Merge(ClipJson(ab[1], ab[2], VideoTrack(n),
                         UriSource("a.mp4", 0, ab[2] - ab[1])).v, extra)) :
        ab \in Intervals(EffMaxTick), n \in EffTrackNumbers,
        extra \in {[x \in {} |-> JNull], [effects |-> InlineEffectsJson]}}

EffectClipChoices ==
    {ClipJson(ab[1], ab[2], EffectsSubTrack(n, sub), EffectSourceJson(sub, 0, ab[2] - ab[1])) :
        ab \in Intervals(EffMaxTick), n \in EffTrackNumbers, sub \in {1, 2}}

EffDocs ==
    {EdlJson(TimeDen, <<m>> \o fx) :
        m \in MainClipChoices,
        fx \in {s \in SeqsUpTo(EffectClipChoices, EffMaxClips) : Len(s) > 0}}

InitEff ==
    /\ doc \in EffDocs
    /\ edl = Unparsed
    /\ gen = [GenIdle EXCEPT !.pc = "start"]
    /\ dec = DecIdle
    /\ enc = EncIdle
    /\ run = RunIdle
    /\ pool = PoolIdle
    /\ hwctx = HwIdle

NextEff == ParseJSON \/ NewGenerator \/ ForBegin \/ ForStep \/ ForEnd

SpecEff == InitEff /\ [][NextEff]_vars

\* the clips of the EDL that are active at the frame of the last yield
ActiveClips ==
    {i \in 1..Len(edl.edl.clips) :
        ActiveAt(edl.edl.clips[i], frameToTime(edl.edl, gen.lastFrame))}

IsMainClip(c, n) == c.track.type = "video" /\ c.track.number = n /\ c.track.subtype = ""
IsEffectsClip(c, n) ==
    c.track.type = "video" /\ c.track.number = n /\ c.track.subtype = "effects"

ActiveMain(n) == {i \in ActiveClips : IsMainClip(edl.edl.clips[i], n)}
ActiveEffects(n) == {i \in ActiveClips : IsEffectsClip(edl.edl.clips[i], n)}

\* the effect an effects clip asks for: its kind and its value as a float
KindOf(name) ==
    CASE name = "brightness" -> "Brightness"
      [] name = "contrast" -> "Contrast"
      [] name = "saturation" -> "Saturation"

WantedEffect(c) ==
    [type |-> KindOf(c.source.type),
     strength |-> FloatFromDouble(DblFromTicks(c.source.data["value"]))]

\* the inline effects of a clip as instruction effects
WantedInline(c) ==
    [i \in 1..Len(c.effects) |->
        [type |-> KindOf(c.effects[i].type), strength |-> c.effects[i].strength]]

\* the effects of an instruction after the first k
EffectsAfter(ins, k) == SubSeq(ins.effects, k + 1, Len(ins.effects))

Occurrences(s, x) == Cardinality({i \in 1..Len(s) : s[i] = x})

\* C14 as stated: at every frame where the main clip of video track N and an
\* effects clip of track N with a brightness, contrast or saturation value
\* are active, the instruction holds, after the inline effects, exactly one
\* effect of that kind and strength; where no effects clip is active no
\* such effect is added
C14_EffectsOnEveryTrack ==
    Yielded =>
        /\ \A n \in EffTrackNumbers : \A m \in ActiveMain(n) : \A x \in ActiveEffects(n) :
              LET main == edl.edl.clips[m]
              IN /\ Len(gen.last.effects) >= Len(main.effects)
                 /\ SubSeq(gen.last.effects, 1, Len(main.effects)) = WantedInline(main)
                 /\ Occurrences(EffectsAfter(gen.last, Len(main.effects)),
                                WantedEffect(edl.edl.clips[x])) = 1
        /\ (\A n \in EffTrackNumbers : ActiveEffects(n) = {}) =>
              \A m \in ActiveMain(1) : gen.last.effects = WantedInline(edl.edl.clips[m])

\* the first of the active effects clips of video track 1, in the order of
\* the clips of the document
FirstActiveEffect ==
    edl.edl.clips[CHOOSE x \in ActiveEffects(1) : \A y \in ActiveEffects(1) : x <= y]

\* C14 amended: instructions are emitted for video track 1 only.  At every
\* frame where the main clip of video track 1 is active, the effects of the
\* instruction are the inline effects of the main clip followed, when an
\* effects clip of track 1 is active, by exactly one effect: the kind and
\* strength of the first active effects clip in document order.  Effects
\* clips of other video tracks, and further active effects clips of track
\* 1, add nothing.
C14_EffectsOnTrackOne ==
    Yielded =>
        \A m \in ActiveMain(1) :
            gen.last.effects =
                WantedInline(edl.edl.clips[m]) \o
                    (IF ActiveEffects(1) = {} THEN << >>
                     ELSE <<WantedEffect(FirstActiveEffect)>>)

\* a frame where the main clip of track 1 with an inline effect and two
\* effects clips of track 1 are active: the instruction holds the inline
\* effect and the effect of the first effects clip
C14_Witness ==
    /\ Yielded
    /\ ActiveMain(1) # {}
    /\ Cardinality(ActiveEffects(1)) = 2
    /\ Len(gen.last.effects) = 2
    /\ gen.last.effects[1].type = "Saturation"
    /\ gen.last.effects[2].type = "Contrast"

(***************************************************************************)
(* HardwareContextManager (src/media/HardwareContextManager.cpp): the      *)
(* process-wide device context.  A machine offers a set of device types;   *)
(* a device context is a handle numbered in the order of creation, 0 is    *)
(* the null pointer.                                                       *)
(***************************************************************************)
MaxContexts == 3       \* device contexts created in one behaviour

DeviceTypes == {"NVENC", "VAAPI", "VideoToolbox"}
HWAccelTypes == DeviceTypes \cup {"None", "Auto"}

\* HWConfig; deviceIndex is not used by createHWDeviceContext
HWConfigs == [type : HWAccelTypes, allowFallback : BOOLEAN]

\* HardwareAcceleration::getBestAccelType: NVENC, then VideoToolbox, then VAAPI
getBestAccelType(devices) ==
    IF "NVENC" \in devices THEN "NVENC"
    ELSE IF "VideoToolbox" \in devices THEN "VideoToolbox"
    ELSE IF "VAAPI" \in devices THEN "VAAPI"
    ELSE "None"

\* HardwareAcceleration::createHWDeviceContext: a new handle, or the null
\* pointer when the machine has no device of the type
createHWDeviceContext(h, type) == IF type \in h.devices THEN h.created + 1 ELSE 0

\* the body of reset(): the context is released
ResetFields(h) == [h EXCEPT !.hwDeviceCtx = 0, !.currentType = "None"]

\* initialize after the check of the existing context
InitializeFresh(h, config) ==
    LET typeToUse == IF config.type = "Auto" THEN getBestAccelType(h.devices)
                     ELSE config.type
        ctx == createHWDeviceContext(h, typeToUse)
    IN IF typeToUse = "None"
       THEN [h EXCEPT !.result = FALSE]
       ELSE IF ctx = 0
       THEN [h EXCEPT !.hwDeviceCtx = 0, !.result = FALSE]
       ELSE [h EXCEPT !.hwDeviceCtx = ctx, !.created = ctx, !.currentType = typeToUse,
                      !.result = TRUE]

\* the caller's record of a call: what was called with what, the
\* configuration of the last initialize if it returned true and no reset
\* followed, and the handles getSharedContext returned since then
Recorded(h, op, config) ==
    [h EXCEPT !.op = op, !.config = config,
              !.initializedWith = IF op = "initialize" /\ h.result THEN {config}
                                  ELSE IF op = "initialize" \/ op = "reset" THEN {}
                                  ELSE h.initializedWith,
              !.returned = IF op = "reset" THEN {}
                           ELSE IF op = "initialize" /\ config \notin h.initializedWith THEN {}
                           ELSE h.returned]

\* HardwareContextManager::initialize.  With a context of another type the
\* function calls reset() while it holds the mutex, which reset() locks
\* again: the behaviour of a second lock of a std::mutex by its owner is
\* undefined; the thread blocks for ever, or the lock is taken and the
\* context is released and created anew.
Initialize(config) ==
    /\ hwctx.pc = "ready"
    /\ hwctx.created < MaxContexts
    /\ \/ /\ hwctx.hwDeviceCtx # 0
          /\ hwctx.currentType = config.type
          /\ hwctx' = Recorded([hwctx EXCEPT !.result = TRUE], "initialize", config)
       \/ /\ hwctx.hwDeviceCtx # 0
          /\ hwctx.currentType # config.type
          /\ \/ hwctx' = [hwctx EXCEPT !.pc = "blocked", !.op = "initialize",
                                       !.config = config]
             \/ hwctx' = Recorded(InitializeFresh(ResetFields(hwctx), config),
                                "initialize", config)
       \/ /\ hwctx.hwDeviceCtx = 0
          /\ hwctx' = Recorded(InitializeFresh(hwctx, config), "initialize", config)
    /\ UNCHANGED <<doc, edl, gen, dec, enc, run, pool>>

\* HardwareContextManager::reset
Reset ==
    /\ hwctx.pc = "ready"
    /\ hwctx' = Recorded(ResetFields(hwctx), "reset", hwctx.config)
    /\ UNCHANGED <<doc, edl, gen, dec, enc, run, pool>>

\* HardwareContextManager::getSharedContext
GetSharedContext ==
    /\ hwctx.pc = "ready"
    /\ hwctx' = Recorded([hwctx EXCEPT !.returned = @ \cup {hwctx.hwDeviceCtx}],
                         "getSharedContext", hwctx.config)
    /\ UNCHANGED <<doc, edl, gen, dec, enc, run, pool>>

\* the manager after its construction, on a machine with some devices
NewManager(devices) ==
    [pc |-> "ready", devices |-> devices, hwDeviceCtx |-> 0, currentType |-> "None",
     created |-> 0, op |-> "none", config |-> [type |-> "Auto", allowFallback |-> TRUE],
     result |-> FALSE, returned |-> {}, initializedWith |-> {}]

InitHw ==
    /\ hwctx \in {NewManager(d) : d \in SUBSET DeviceTypes}
    /\ doc = NoDoc
    /\ edl = Unparsed
    /\ gen = GenIdle
    /\ dec = DecIdle
    /\ enc = EncIdle
    /\ run = RunIdle
    /\ pool = PoolIdle

NextHw == (\E config \in HWConfigs : Initialize(config)) \/ Reset \/ GetSharedContext

SpecHw == InitHw /\ [][NextHw]_vars

\* C18: after initialize(c) has returned true, a further initialize with the
\* same configuration c (Auto included) returns true without creating a new
\* device context, and getSharedContext returns the same handle on every
\* call until reset is called
C18_InitializeIdempotent ==
    [][(hwctx.pc = "ready" /\ hwctx.initializedWith # {}) =>
          /\ (hwctx'.op = "initialize" /\ hwctx'.config \in hwctx.initializedWith) =>
                /\ hwctx'.pc = "ready"
                /\ hwctx'.result
                /\ hwctx'.created = hwctx.created
                /\ hwctx'.hwDeviceCtx = hwctx.hwDeviceCtx
          /\ Cardinality(hwctx'.returned) <= 1]_vars

\* C19: a call of writeHardwareFrame, whichever branch it takes (upload,
\* direct send of a hardware frame, or the fallback without hardware
\* encoding), leaves the caller's frame unchanged: its pts after the call is
\* the pts it had before
C19_CallerFrameUnchanged ==
    (enc.pc = "open" /\ enc.last.op = "writeHardwareFrame") => enc.last.framePts = CallerPts

(***************************************************************************)
(* Iterator use: any number of passes over the generator, each one a new   *)
(* begin() iterator that is dereferenced and incremented in any order and  *)
(* left at any point (the pre-scan of main breaks out of its loop)         *)
(***************************************************************************)
IterMaxTick == 2       \* largest in/out point of an iterator document, in ticks
IterMaxPasses == 2     \* passes over the generator

\* a clip without effects, with a saturation effect and with a blur effect
IterEffects ==
    {JArr(<< >>),
     JArr(<<JObj([type |-> JStr("saturation"), strength |-> JReal(3)])>>),
     JArr(<<JObj([type |-> JStr("blur"), strength |-> JReal(3)])>>)}

IterClipChoices ==
    {JObj(Merge(ClipJson(ab[1], ab[2], VideoTrack1, UriSource("a.mp4", 0, ab[2] - ab[1])).v,
                [effects |-> fx])) :
        ab \in Intervals(IterMaxTick), fx \in IterEffects}

IterDocs == {EdlJson(TimeDen, <<c>>) : c \in IterClipChoices}

\* the instructions obtained so far, by frame number: the first value each
\* frame number gave
NothingSeen == [n \in {} |-> NoInstruction]

InitIter ==
    /\ doc \in IterDocs
    /\ edl = Unparsed
    /\ gen = Merge([GenIdle EXCEPT !.pc = "start"], [seen |-> NothingSeen, passes |-> 0])
    /\ dec = DecIdle
    /\ enc = EncIdle
    /\ run = RunIdle
    /\ pool = PoolIdle
    /\ hwctx = HwIdle

\* begin(): a new iterator at frame 0
PassBegin ==
    /\ gen.pc = "ready"
    /\ gen.passes < IterMaxPasses
    /\ gen' = [gen EXCEPT !.pc = "loop", !.it = begin, !.passes = @ + 1]
    /\ UNCHANGED <<pool, hwctx, doc, edl, dec, enc, run>>

\* *it
Dereference ==
    /\ gen.pc = "loop"
    /\ IterNotEqual(gen.it, end(gen.totalFrames))
    /\ \E d \in IterDeref(edl.edl, gen.it) :
          gen' = [gen EXCEPT !.it = d,
                             !.last = d.current,
                             !.lastFrame = d.frameNumber,
                             !.yieldCount = @ + (IF gen.it.currentValid THEN 0 ELSE 1),
                             !.seen = IF d.frameNumber \in DOMAIN @ THEN @
                                      ELSE [n \in DOMAIN @ \cup {d.frameNumber} |->
                                              IF n = d.frameNumber THEN d.current ELSE @[n]]]
    /\ gen' # gen
    /\ UNCHANGED <<pool, hwctx, doc, edl, dec, enc, run>>

\* ++it
Increment ==
    /\ gen.pc = "loop"
    /\ IterNotEqual(gen.it, end(gen.totalFrames))
    /\ gen' = [gen EXCEPT !.it = IterIncrement(gen.it)]
    /\ UNCHANGED <<pool, hwctx, doc, edl, dec, enc, run>>

\* the loop is left: it reached end(), or a break
PassEnd ==
    /\ gen.pc = "loop"
    /\ gen' = [gen EXCEPT !.pc = "ready"]
    /\ UNCHANGED <<pool, hwctx, doc, edl, dec, enc, run>>

NextIter == ParseJSON \/ NewGenerator \/ PassBegin \/ Dereference \/ Increment \/ PassEnd

SpecIter == InitIter /\ [][NextIter]_vars

\* C20: for a fixed EDL the instruction stream is a function of the frame
\* number only: whatever dereferences, increments and earlier passes came
\* before, an iterator at position n dereferences to the one instruction of
\* frame n, the same in every pass, and after an increment the value cached
\* for the previous position is not returned
C20_FunctionOfFrame ==
    (gen.pc = "loop" /\ gen.it.currentValid) =>
        /\ gen.it.frameNumber \in DOMAIN gen.seen
        /\ gen.it.current = gen.seen[gen.it.frameNumber]
        /\ gen.it.current \in
              InstructionOutcomes(getInstructionForFrame(edl.edl, gen.it.frameNumber))

\* C21: initialize on an initialized manager with a configuration whose type
\* differs from the stored type completes: the old context is released, the
\* call returns, and the mutex is free afterwards so that later calls proceed
C21_ReinitializeCompletes ==
    [][(/\ hwctx.pc = "ready"
        /\ hwctx.hwDeviceCtx # 0
        /\ hwctx'.op = "initialize"
        /\ hwctx'.config.type # hwctx.currentType) =>
          /\ hwctx'.pc = "ready"
          /\ hwctx'.hwDeviceCtx # hwctx.hwDeviceCtx]_vars

(***************************************************************************)
(* FFmpegDecoder: the contract of seekToFrame and repeated requests        *)
(***************************************************************************)
\* a frame number of the file
InFile(d, n) == 0 <= n /\ n < d.totalFrames

\* the decoder's count and the stream are where they were
DecoderUnmoved(d, after) ==
    /\ after.currentFrameNumber = d.currentFrameNumber
    /\ after.position = d.position

\* C22: seekToFrame(n) with n in the file calls av_seek_frame if and only if
\* currentFrameNumber > n or currentFrameNumber < n - 60, and then restarts
\* its count at -1 from the keyframe; with currentFrameNumber = n it does no
\* work and succeeds; in the remaining cases it only decodes forward;
\* whenever it succeeds after starting with currentFrameNumber # n,
\* currentFrameNumber = n - 1 on return; for n outside the file it fails and
\* leaves the decoder unchanged
C22_SeekContract ==
    [][(dec.pc = "open" /\ dec'.last.op = "seekToFrame") =>
          IF ~InFile(dec, dec'.last.n)
          THEN ~dec'.last.ok /\ ~dec'.last.sought /\ DecoderUnmoved(dec, dec')
          ELSE /\ dec'.last.sought <=>
                    \/ dec.currentFrameNumber > dec'.last.n
                    \/ dec.currentFrameNumber < dec'.last.n - SeekAheadLimit
               /\ (dec'.last.sought /\ ~dec'.last.seeked) =>
                    ~dec'.last.ok /\ DecoderUnmoved(dec, dec')
               /\ (dec'.last.seeked /\ dec'.last.ok) =>
                    dec'.position = KeyframeAtOrBefore(dec, dec'.last.n) + dec'.last.n
               /\ dec.currentFrameNumber = dec'.last.n =>
                    dec'.last.ok /\ dec'.last.noWork /\ DecoderUnmoved(dec, dec')
               /\ (~dec'.last.sought /\ dec.currentFrameNumber # dec'.last.n) =>
                    /\ dec'.position >= dec.position
                    /\ dec'.position - dec.position
                          = dec'.currentFrameNumber - dec.currentFrameNumber
               /\ (dec'.last.ok /\ dec.currentFrameNumber # dec'.last.n) =>
                    dec'.currentFrameNumber = dec'.last.n - 1]_vars

\* a seekToFrame that jumped forward by more than 60 frames with a seek and
\* succeeded
C22_Witness ==
    /\ dec.pc = "open"
    /\ dec.last.op = "seekToFrame"
    /\ dec.last.ok
    /\ dec.last.seeked
    /\ dec.last.before < dec.last.n - SeekAheadLimit
    /\ dec.currentFrameNumber = dec.last.n - 1

\* the requests that deliver a frame
FrameRequests == {"getFrame", "getHardwareFrame"}

\* C23: when two consecutive requests on one decoder ask for the same source
\* frame number n, the first having delivered frame n, the second delivers
\* source frame n as well and currentFrameNumber is n after it
C23_RepeatedRequest ==
    [][(/\ dec.pc = "open"
        /\ dec.last.op \in FrameRequests
        /\ dec.last.ok
        /\ dec.last.frame = dec.last.n
        /\ dec.currentFrameNumber = dec.last.n
        /\ dec'.last.op \in FrameRequests
        /\ dec'.last.n = dec.last.n) =>
          /\ dec'.last.ok
          /\ dec'.last.frame = dec'.last.n
          /\ dec'.currentFrameNumber = dec'.last.n]_vars

\* the calls that hand a frame to the encoder
WriteCalls == {"writeFrame", "writeHardwareFrame"}

\* frames the codec has taken so far: those it still holds and those whose
\* packet it has handed out
TakenByCodec(e) == Len(e.pending) + e.emitted

\* C24: no frame is silently dropped by the encoder: every writeFrame or
\* writeHardwareFrame call that returns true has handed its frame to the
\* codec, also when the codec answers the send with EAGAIN, so that with one
\* packet per accepted frame the packets muxed at finalize are as many as
\* the calls that returned true
C24_NoFrameDropped ==
    [][(enc.pc = "open" /\ enc'.pc = "open" /\ enc'.last.op \in WriteCalls /\ enc'.last.ok) =>
          TakenByCodec(enc') = TakenByCodec(enc) + 1]_vars

\* what the encoder has put out and what it has taken in
Output(e) == [muxed |-> e.muxed, trailers |-> e.trailers]

Intake(e) == [submitted |-> e.submitted, pending |-> e.pending, emitted |-> e.emitted,
              pts |-> e.pts, flushed |-> e.flushed]

\* C27: once finalize has returned true, every later call leaves the output
\* unchanged: writeFrame and writeHardwareFrame return false without sending
\* a frame, writing a packet or advancing pts, and a further finalize, called
\* or run by the destructor, returns true without flushing again or writing
\* a second trailer
C27_InertAfterFinalize ==
    [][(enc.pc = "open" /\ enc.finalized) =>
          /\ Output(enc') = Output(enc)
          /\ enc'.last.op \in WriteCalls => (~enc'.last.ok /\ Intake(enc') = Intake(enc))
          /\ enc'.last.op = "finalize" => (enc'.last.ok /\ Intake(enc') = Intake(enc))
          /\ enc'.last.op = "destroy" => "finalize" \notin Range(enc'.events)]_vars

\* a frame was written and muxed, finalize returned true, and a call came
\* after it
C27_Witness ==
    /\ enc.pc = "open"
    /\ enc.finalized
    /\ enc.trailers = 1
    /\ Len(enc.muxed) > 0
    /\ enc.last.op \in WriteCalls \cup {"finalize"}
    /\ enc.finalizeCalls = IF enc.last.op = "finalize" THEN 2 ELSE 1

(***************************************************************************)
(* The asynchronous queue: sendFrameAsync and processEncodingQueue on a    *)
(* hardware encoder whose codec hands out packets in presentation order    *)
(***************************************************************************)
QueueMaxFrames == 2    \* frames sent in one behaviour
QueueBacklog == 12     \* frames in flight when the behaviour starts

\* the encoder after k frames the codec accepted, none of which it has
\* handed out yet: every look at the queue was answered with EAGAIN
WithBacklog(e, k) ==
    [e EXCEPT !.pts = k,
              !.submitted = [i \in 1..k |-> i - 1],
              !.pending = [i \in 1..k |-> i - 1],
              !.framesInFlight = k,
              !.paths = IF k = 0 THEN {} ELSE {"software"}]

\* hardware encoders that run in async mode with B-frames off
QueueEncoders ==
    {e \in {setupEncoder(config, env) : config \in EncoderConfigs, env \in EncoderEnvs} :
        e.asyncMode /\ e.maxBFramesZero}

InitQueue ==
    /\ doc = NoDoc
    /\ edl = Unparsed
    /\ gen = GenIdle
    /\ dec = DecIdle
    /\ enc \in {WithBacklog(e, k) : e \in QueueEncoders, k \in {0, QueueBacklog}}
    /\ run = RunIdle
    /\ pool = PoolIdle
    /\ hwctx = HwIdle

\* the pts the behaviour started with
Backlog(e) == IF e.pts >= QueueBacklog THEN QueueBacklog ELSE 0

\* the frame of the next pts goes to sendFrameAsync
SendFrameAsync ==
    /\ enc.pc = "open"
    /\ enc.pts < Backlog(enc) + QueueMaxFrames
    /\ \E r \in sendFrameAsync([enc EXCEPT !.pts = @ + 1], enc.pts) :
          enc' = [r.e EXCEPT !.last = [op |-> "sendFrameAsync", ok |-> r.ok,
                                       drained |-> r.drained]]
    /\ UNCHANGED <<pool, hwctx, doc, edl, gen, dec, run>>

ProcessEncodingQueue ==
    /\ enc.pc = "open"
    /\ \E q \in processEncodingQueue(enc) :
          enc' = [q EXCEPT !.last = [op |-> "processEncodingQueue", ok |-> TRUE,
                                     drained |-> (enc.framesInFlight > 0)]]
    /\ UNCHANGED <<pool, hwctx, doc, edl, gen, dec, run>>

NextQueue == SendFrameAsync \/ ProcessEncodingQueue

SpecQueue == InitQueue /\ [][NextQueue]_vars

\* C26: in async mode, before finalize begins, framesInFlight is >= 0 and
\* equals the number of frames the codec accepted minus the number of
\* packets written to the muxer, and a send the codec accepted is followed
\* by a drain exactly when framesInFlight has reached ASYNC_QUEUE_SIZE - 2
C26_InFlightAccounting ==
    [][(enc.pc = "open" /\ enc.asyncMode /\ enc.finalizeCalls = 0) =>
          /\ enc'.framesInFlight >= 0
          /\ enc'.framesInFlight = TakenByCodec(enc') - Len(enc'.muxed)
          /\ (enc'.last.op = "sendFrameAsync" /\ TakenByCodec(enc') = TakenByCodec(enc) + 1) =>
                (enc'.last.drained <=> enc.framesInFlight + 1 >= ASYNC_QUEUE_SIZE - 2)]_vars

\* a send brought the count to the threshold and the drain that followed
\* wrote packets
C26_Witness ==
    /\ enc.pc = "open"
    /\ enc.asyncMode
    /\ enc.last.op = "sendFrameAsync"
    /\ enc.last.drained
    /\ Len(enc.muxed) > 0
    /\ enc.framesInFlight > 0

(***************************************************************************)
(* finalize, statement by statement (FFmpegEncoder.cpp 1067-1149), on one  *)
(* thread.  The codec holds `left` frames, for each of which it hands out  *)
(* one packet when asked; to every avcodec_receive_packet it may also      *)
(* answer EAGAIN or an error, and EOF once it is flushed and empty.        *)
(***************************************************************************)
FinMaxCalls == 2       \* finalize calls on one encoder with a small backlog
FinSmallBacklog == 2   \* frames in the codec when the muxer may refuse packets

\* frames in the codec when finalize is called: few, or enough to use up the
\* attempts of the first loop.  With these the second loop ends on an answer
\* of the codec, before its own limit.
FinBacklogs == (0..FinSmallBacklog) \cup {FlushAttemptLimit + 1}

\* the encoder when finalize is called the first time: in async mode the
\* frames the codec holds are in flight.  With a large backlog the muxer
\* takes every packet and finalize is called once.
BeforeFinalize(asyncMode, backlog, muxerFails) ==
    [pc |-> "ready", asyncMode |-> asyncMode, muxerFails |-> muxerFails,
     framesInFlight |-> IF asyncMode THEN backlog ELSE 0, left |-> backlog,
     flushed |-> FALSE, finalized |-> FALSE,
     calls |-> IF backlog <= FinSmallBacklog THEN FinMaxCalls ELSE 1,
     flushAttempts |-> 0, received |-> FALSE, iterations |-> 0,
     trailers |-> 0, result |-> FALSE, step |-> "none"]

InitFin ==
    /\ doc = NoDoc
    /\ edl = Unparsed
    /\ gen = GenIdle
    /\ dec = DecIdle
    /\ enc \in {BeforeFinalize(a, b, m) : a \in BOOLEAN, b \in FinBacklogs, m \in BOOLEAN} \
               {BeforeFinalize(a, b, TRUE) : a \in BOOLEAN, b \in FinBacklogs \ (0..FinSmallBacklog)}
    /\ run = RunIdle
    /\ pool = PoolIdle
    /\ hwctx = HwIdle

OnlyEnc == UNCHANGED <<pool, hwctx, doc, edl, gen, dec, run>>

\* what avcodec_receive_packet can answer
ReceiveAnswers(e) ==
    {"again", "error"} \cup (IF e.left > 0 THEN {"packet"} ELSE {})
                       \cup (IF e.flushed /\ e.left = 0 THEN {"eof"} ELSE {})

\* what av_interleaved_write_frame can answer
WriteAnswers(e) == IF e.muxerFails THEN {TRUE, FALSE} ELSE {TRUE}

\* if (finalized) return true; otherwise the flush of the mode
FinalizeEnter ==
    /\ enc.pc \in {"ready", "returned"}
    /\ enc.calls > 0
    /\ enc' = IF enc.finalized
              THEN [enc EXCEPT !.pc = "returned", !.calls = @ - 1, !.result = TRUE,
                               !.step = "enter"]
              ELSE [enc EXCEPT !.pc = IF enc.asyncMode THEN "inFlightTest" ELSE "syncFlush",
                               !.calls = @ - 1, !.flushAttempts = 0, !.step = "enter"]
    /\ OnlyEnc

\* variant: the first loop goes on while frames are in flight
InFlightTestUnbounded ==
    /\ enc.pc = "inFlightTest"
    /\ enc' = IF enc.framesInFlight > 0
              THEN [enc EXCEPT !.pc = "receiving", !.received = FALSE, !.step = "test"]
              ELSE [enc EXCEPT !.pc = "sendFlush", !.step = "test"]
    /\ OnlyEnc

\* while (framesInFlight > 0 && flushAttempts < 100)
InFlightTest ==
    /\ enc.pc = "inFlightTest"
    /\ enc' = IF enc.framesInFlight > 0 /\ enc.flushAttempts < FlushAttemptLimit
              THEN [enc EXCEPT !.pc = "receiving", !.received = FALSE, !.step = "test"]
              ELSE [enc EXCEPT !.pc = "sendFlush", !.step = "test"]
    /\ OnlyEnc

\* one round of the loop of receivePacketsAsync
ReceivePacketAsync ==
    /\ enc.pc = "receiving"
    /\ \E ret \in ReceiveAnswers(enc), written \in WriteAnswers(enc) :
          enc' = IF ret = "packet"
                 THEN IF written
                      THEN [enc EXCEPT !.left = @ - 1, !.received = TRUE,
                                       !.framesInFlight = IF @ > 0 THEN @ - 1 ELSE @,
                                       !.step = "packet"]
                      ELSE [enc EXCEPT !.left = @ - 1, !.pc = "inFlightReceived",
                                       !.step = "refused"]
                 ELSE [enc EXCEPT !.pc = "inFlightReceived", !.step = ret,
                                  !.framesInFlight = IF ret = "eof" THEN 0 ELSE @]
    /\ OnlyEnc

\* if (!received) break; flushAttempts++
InFlightReceived ==
    /\ enc.pc = "inFlightReceived"
    /\ enc' = IF ~enc.received
              THEN [enc EXCEPT !.pc = "sendFlush", !.step = "break"]
              ELSE [enc EXCEPT !.pc = "inFlightTest", !.flushAttempts = @ + 1,
                               !.step = "counted"]
    /\ OnlyEnc

\* avcodec_send_frame(codecCtx, nullptr); the answer is only logged
SendFlush ==
    /\ enc.pc = "sendFlush"
    /\ enc' = [enc EXCEPT !.pc = "flushLoop", !.flushed = TRUE, !.iterations = 0,
                          !.flushAttempts = 0, !.step = "flush"]
    /\ OnlyEnc

\* while (!done && iterations < maxIterations): a packet is written, any
\* other answer ends the loop
FlushLoop ==
    /\ enc.pc = "flushLoop"
    /\ \E ret \in ReceiveAnswers(enc), written \in WriteAnswers(enc) :
          enc' = IF enc.iterations >= FlushIterationLimit
                 THEN [enc EXCEPT !.pc = "trailer", !.step = "timeout"]
                 ELSE IF ret = "packet"
                 THEN [enc EXCEPT !.left = @ - 1, !.iterations = @ + 1,
                                  !.step = IF written THEN "packet" ELSE "refused"]
                 ELSE [enc EXCEPT !.pc = "trailer", !.iterations = @ + 1, !.step = ret]
    /\ OnlyEnc

\* flushEncoder: the flush signal; an error other than EOF returns at once
SyncFlush ==
    /\ enc.pc = "syncFlush"
    /\ \E sent \in BOOLEAN :
          enc' = [enc EXCEPT !.pc = IF sent THEN "syncLoop" ELSE "trailer",
                             !.flushed = @ \/ sent, !.step = "flush"]
    /\ OnlyEnc

\* flushEncoder: packets to the muxer until EOF; EAGAIN, an error and a
\* refused packet return false, which finalize does not look at
SyncLoop ==
    /\ enc.pc = "syncLoop"
    /\ \E ret \in ReceiveAnswers(enc), written \in WriteAnswers(enc) :
          enc' = IF ret = "packet"
                 THEN IF written
                      THEN [enc EXCEPT !.left = @ - 1, !.step = "packet"]
                      ELSE [enc EXCEPT !.left = @ - 1, !.pc = "trailer", !.step = "refused"]
                 ELSE [enc EXCEPT !.pc = "trailer", !.step = ret]
    /\ OnlyEnc

\* av_write_trailer: only a written trailer sets finalized
WriteTrailer ==
    /\ enc.pc = "trailer"
    /\ \E ret \in BOOLEAN :
          enc' = IF ret
                 THEN [enc EXCEPT !.pc = "returned", !.finalized = TRUE, !.trailers = @ + 1,
                                  !.iterations = 0, !.result = TRUE, !.step = "trailer"]
                 ELSE [enc EXCEPT !.pc = "returned", !.iterations = 0, !.result = FALSE,
                                  !.step = "noTrailer"]
    /\ OnlyEnc

\* the statements of finalize after its entry
FinalizeSteps ==
    \/ InFlightTest
    \/ ReceivePacketAsync
    \/ InFlightReceived
    \/ SendFlush
    \/ FlushLoop
    \/ SyncFlush
    \/ SyncLoop
    \/ WriteTrailer

NextFin == FinalizeEnter \/ FinalizeSteps

\* the thread that called finalize goes on running it
SpecFin == InitFin /\ [][NextFin]_vars /\ WF_vars(FinalizeSteps)

\* finalize has been entered and has not returned
Finalizing == enc.pc \notin {"ready", "returned"}

DeclaredKinds == {"brightness", "contrast", "saturation"}

\* C30: every effect of an emitted instruction has a kind set from the type
\* name declared in the EDL: a clip effect whose type is not brightness,
\* contrast or saturation adds no entry, so the list holds one entry for each
\* effect of a known type and none whose kind was left unset
C30_EffectKindsSet ==
    (gen.pc = "loop" /\ gen.it.currentValid) =>
        LET c == findClipAtFrame(edl.edl, gen.it.frameNumber, 1)
            ins == getInstructionForFrame(edl.edl, gen.it.frameNumber)
        IN c.found =>
              /\ Len(gen.it.current.effects) =
                    Cardinality({k \in 1..Len(c.clip.effects) :
                                    c.clip.effects[k].type \in DeclaredKinds})
              /\ \A k \in 1..Len(ins.effects) : ins.effects[k].type # "indeterminate"

(***************************************************************************)
(* FrameCompositor::processFrame: the scaler context (FrameCompositor.cpp  *)
(* 34-71).  A picture layout is a width, a height and a pixel format.      *)
(***************************************************************************)
Layouts == [width : {1, 2, 3}, height : {1, 2}, format : {"yuv420p", "rgb24"}]

NoContext == [width |-> 0, height |-> 0, format |-> "none"]
NoFrame == NoContext

\* FrameCompositor(width, height, format): no scaler context yet
FrameCompositor(out) ==
    [pc |-> "compositor", out |-> out, swsCtx |-> NoContext,
     last |-> [path |-> "none", input |-> NoFrame, ctx |-> NoContext, picture |-> "none"]]

\* sws_scale with a context made for the layout ctx on a frame of the layout
\* input: with another layout the planes are read with the wrong strides and
\* sizes, which gives a wrong picture or reads past the end of a plane
ScaleOutcomes(ctx, input) ==
    IF ctx = input THEN {"converted"} ELSE {"misread", "fault"}

\* processFrame(input, instruction) up to the effects; created: whether a
\* call of sws_getContext succeeds; picture: the outcome of sws_scale
processFrame(c, input, created, picture) ==
    IF input = NoFrame
    THEN [c EXCEPT !.last = [path |-> "color", input |-> input, ctx |-> NoContext,
                             picture |-> "black"]]
    ELSE IF input # c.out
    THEN IF c.swsCtx = NoContext /\ ~created
         THEN [c EXCEPT !.last = [path |-> "noContext", input |-> input, ctx |-> NoContext,
                                  picture |-> "pooled"]]
         ELSE LET ctx == IF c.swsCtx = NoContext THEN input ELSE c.swsCtx
              IN [c EXCEPT !.swsCtx = ctx,
                           !.pc = IF picture = "fault" THEN "fault" ELSE @,
                           !.last = [path |-> "scale", input |-> input, ctx |-> ctx,
                                     picture |-> picture]]
    ELSE [c EXCEPT !.last = [path |-> "copy", input |-> input, ctx |-> NoContext,
                             picture |-> "copied"]]

\* the context sws_scale is called with
ContextUsed(c, input) == IF c.swsCtx = NoContext THEN input ELSE c.swsCtx

InitComp ==
    /\ doc = NoDoc
    /\ edl = Unparsed
    /\ gen = GenIdle
    /\ dec = DecIdle
    /\ enc = EncIdle
    /\ run \in {FrameCompositor(out) : out \in Layouts}
    /\ pool = PoolIdle
    /\ hwctx = HwIdle

\* one call of processFrame, with any input
ComposeFrame ==
    /\ run.pc = "compositor"
    /\ \E input \in Layouts \cup {NoFrame}, created \in BOOLEAN :
         \E picture \in ScaleOutcomes(ContextUsed(run, input), input) :
            run' = processFrame(run, input, created, picture)
    /\ UNCHANGED <<pool, hwctx, doc, edl, gen, dec, enc>>

NextComp == ComposeFrame

SpecComp == InitComp /\ [][NextComp]_vars

\* C29: whenever processFrame scales or converts an input, the scaler
\* context it uses was created for exactly that input's width, height and
\* pixel format, also when inputs of two different layouts are processed one
\* after the other
C29_ScalerMatchesInput ==
    run.last.path = "scale" =>
        /\ run.last.ctx = run.last.input
        /\ run.last.picture = "converted"

(***************************************************************************)
(* References on hardware device contexts in main: the shared context of   *)
(* the manager, the contexts the decoders create, the context the encoder  *)
(* references or creates, and the teardown (main.cpp 290-300, 542-564).    *)
(* A context is a reference count; it is freed when the count reaches 0.   *)
(***************************************************************************)
RefMaxDecoders == 2    \* decoders main opens

NoEncoder == [member |-> "none", owns |-> FALSE, codec |-> "none", codecOpen |-> FALSE]

\* main before the shared context is initialized; managerOk: whether
\* HardwareContextManager::initialize finds a device
MainStart(opts, env, managerOk) ==
    [pc |-> "start", opts |-> opts, env |-> env, managerOk |-> managerOk,
     manager |-> FALSE, shared |-> 0, own |-> 0,
     decoders |-> << >>, encoder |-> NoEncoder, todo |-> << >>]

\* the references the encoder holds after setupEncoder: its member
\* hwDeviceCtx, on the external context or on one it created, and
\* codecCtx->hw_device_ctx
EncoderReferences(config, e) ==
    LET member == IF ~e.hwDeviceCtx THEN "none"
                  ELSE IF config.externalHwDeviceCtx THEN "shared" ELSE "own"
    IN [member |-> member,
        owns |-> e.ownHwDeviceCtx,
        codec |-> IF e.usingHardware /\ config.hwType # "videotoolbox" THEN member
                  ELSE "none",
        codecOpen |-> TRUE]

\* the references counted on a context
ReferencesOn(e, ctx) == (IF e.member = ctx THEN 1 ELSE 0) + (IF e.codec = ctx THEN 1 ELSE 0)

InitRefs ==
    /\ doc = NoDoc
    /\ edl = Unparsed
    /\ gen = GenIdle
    /\ dec = DecIdle
    /\ enc = EncIdle
    /\ run = RunIdle
    /\ pool = PoolIdle
    /\ hwctx \in {MainStart(opts, env, ok) :
                    opts \in MainOptions, env \in EncoderEnvs, ok \in BOOLEAN}

OnlyHwctx == UNCHANGED <<doc, edl, gen, dec, enc, run, pool>>

\* HardwareContextManager::initialize when hardware is asked for: the
\* manager holds the one reference on the context it created
InitializeShared ==
    /\ hwctx.pc = "start"
    /\ hwctx' = IF (hwctx.opts.hwDecode \/ hwctx.opts.hwEncode) /\ hwctx.managerOk
                THEN [hwctx EXCEPT !.pc = "decoders", !.manager = TRUE, !.shared = 1]
                ELSE [hwctx EXCEPT !.pc = "decoders"]
    /\ OnlyHwctx

\* a decoder: with hardware decoding it creates a context of its own, which
\* its member and its codec context reference
LoadDecoder ==
    /\ hwctx.pc = "decoders"
    /\ Len(hwctx.decoders) < RefMaxDecoders
    /\ \E hw \in {h \in BOOLEAN : h => hwctx.opts.hwDecode} :
          hwctx' = [hwctx EXCEPT !.decoders =
                        Append(@, [refs |-> IF hw THEN 2 ELSE 0, codecOpen |-> TRUE,
                                   hw |-> hw])]
    /\ OnlyHwctx

\* the encoder is constructed with the shared context as external context
SetupEncoder ==
    /\ hwctx.pc = "decoders"
    /\ LET config == EncoderConfig(hwctx.opts, hwctx.manager)
           r == EncoderReferences(config, setupEncoder(config, hwctx.env))
       IN hwctx' = [hwctx EXCEPT !.pc = "rendering", !.encoder = r,
                                 !.shared = @ + ReferencesOn(r, "shared"),
                                 !.own = @ + ReferencesOn(r, "own")]
    /\ OnlyHwctx

\* the end of main: decoders.clear(), reset(), and the encoder leaves its
\* scope at the return; or an exception unwinds the encoder and the decoders
\* and the handler calls reset()
LeaveRendering ==
    /\ hwctx.pc = "rendering"
    /\ \E thrown \in BOOLEAN :
          hwctx' = [hwctx EXCEPT !.pc = "teardown",
                       !.todo = IF thrown
                                THEN <<"freeCodec", "unrefContext", "clearDecoders", "reset">>
                                ELSE <<"clearDecoders", "reset", "freeCodec", "unrefContext">>]
    /\ OnlyHwctx

\* the record after the first step of todo
StepDone(h) ==
    [h EXCEPT !.todo = Tail(@), !.pc = IF Len(h.todo) = 1 THEN "done" ELSE @]

\* FFmpegDecoder::cleanup of every decoder: the codec context is freed, then
\* the member is released
ClearDecoders ==
    /\ hwctx.pc = "teardown"
    /\ Head(hwctx.todo) = "clearDecoders"
    /\ hwctx' = [StepDone(hwctx) EXCEPT !.decoders =
                    [i \in 1..Len(@) |-> [@[i] EXCEPT !.refs = 0, !.codecOpen = FALSE]]]
    /\ OnlyHwctx

\* HardwareContextManager::reset: the manager's reference is released
ResetManager ==
    /\ hwctx.pc = "teardown"
    /\ Head(hwctx.todo) = "reset"
    /\ hwctx' = [StepDone(hwctx) EXCEPT !.manager = FALSE,
                                       !.shared = IF hwctx.manager THEN @ - 1 ELSE @]
    /\ OnlyHwctx

\* FFmpegEncoder::cleanup, avcodec_free_context: the codec's reference goes
FreeEncoderCodec ==
    /\ hwctx.pc = "teardown"
    /\ Head(hwctx.todo) = "freeCodec"
    /\ hwctx' = [StepDone(hwctx) EXCEPT
                    !.encoder = [@ EXCEPT !.codec = "none", !.codecOpen = FALSE],
                    !.shared = IF hwctx.encoder.codec = "shared" THEN @ - 1 ELSE @,
                    !.own = IF hwctx.encoder.codec = "own" THEN @ - 1 ELSE @]
    /\ OnlyHwctx

\* FFmpegEncoder::cleanup, if (hwDeviceCtx && ownHwDeviceCtx) av_buffer_unref
UnrefEncoderContext ==
    /\ hwctx.pc = "teardown"
    /\ Head(hwctx.todo) = "unrefContext"
    /\ hwctx' = IF hwctx.encoder.member # "none" /\ hwctx.encoder.owns
                THEN [StepDone(hwctx) EXCEPT
                        !.encoder = [@ EXCEPT !.member = "none"],
                        !.own = IF hwctx.encoder.member = "own" THEN @ - 1 ELSE @,
                        !.shared = IF hwctx.encoder.member = "shared" THEN @ - 1 ELSE @]
                ELSE StepDone(hwctx)
    /\ OnlyHwctx

NextRefs ==
    \/ InitializeShared
    \/ LoadDecoder
    \/ SetupEncoder
    \/ LeaveRendering
    \/ ClearDecoders
    \/ ResetManager
    \/ FreeEncoderCodec
    \/ UnrefEncoderContext

SpecRefs == InitRefs /\ [][NextRefs]_vars

\* C28: every reference the encoder takes on a device context, its own or
\* the external shared one, is released by the end of its teardown: after
\* the decoders and the encoder are destroyed and reset has run every count
\* is zero, and no context is freed while a codec that uses it is open
C28_ReferencesReleased ==
    /\ hwctx.pc = "done" =>
          /\ hwctx.shared = 0
          /\ hwctx.own = 0
          /\ \A i \in 1..Len(hwctx.decoders) : hwctx.decoders[i].refs = 0
    /\ (hwctx.encoder.codecOpen /\ hwctx.encoder.codec = "shared") => hwctx.shared > 0
    /\ (hwctx.encoder.codecOpen /\ hwctx.encoder.codec = "own") => hwctx.own > 0
    /\ \A i \in 1..Len(hwctx.decoders) :
          (hwctx.decoders[i].codecOpen /\ hwctx.decoders[i].hw) => hwctx.decoders[i].refs > 0

====
